---- MODULE Spec2Model ----
(***************************************************************************)
(* A model of the WasmVM interpreter of src/src/vm.cpp and src/inc/vm.h:   *)
(* the operand stack, the call stack of frames with their label stacks,   *)
(* the control-flow pre-indexing pass and the opcode dispatcher.          *)
(*                                                                         *)
(* Addresses (const byte* into a function's code_bytes) are offsets from   *)
(* code_bytes.data(): 0 is the first byte, Len(code) is one past the end.  *)
(* NULL is the null pointer.                                               *)
(***************************************************************************)
EXTENDS Integers, Sequences, FiniteSets, TLC

VARIABLES module_, linear_memory_, table_instances_, global_values_,
          operand_stack_, call_stack_, status, output, runs, last

vars == <<module_, linear_memory_, table_instances_, global_values_,
          operand_stack_, call_stack_, status, output, runs, last>>

\* What no opcode handler writes.
instance == <<module_, table_instances_, runs>>

\* ------------------------------------------------------------------ bounds
MaxInstrs == 3
MaxStack == 5
MaxFrames == 3
MaxRuns == 2
MaxN == 10

\* ------------------------------------------------------- program constants
NULL == -1

WASM_OP_UNREACHABLE == 0
WASM_OP_NOP == 1
WASM_OP_BLOCK == 2
WASM_OP_LOOP == 3
WASM_OP_IF == 4
WASM_OP_ELSE == 5
WASM_OP_END == 11
WASM_OP_BR == 12
WASM_OP_BR_IF == 13
WASM_OP_BR_TABLE == 14
WASM_OP_RETURN == 15
WASM_OP_CALL == 16
WASM_OP_CALL_INDIRECT == 17
WASM_OP_DROP == 26
WASM_OP_SELECT == 27
WASM_OP_LOCAL_GET == 32
WASM_OP_LOCAL_SET == 33
WASM_OP_LOCAL_TEE == 34
WASM_OP_GLOBAL_GET == 35
WASM_OP_GLOBAL_SET == 36
WASM_OP_I32_LOAD == 40
WASM_OP_I64_LOAD == 41
WASM_OP_F32_LOAD == 42
WASM_OP_F64_LOAD == 43
WASM_OP_I32_LOAD8_S == 44
WASM_OP_I32_LOAD8_U == 45
WASM_OP_I32_LOAD16_S == 46
WASM_OP_I32_LOAD16_U == 47
WASM_OP_I32_STORE == 54
WASM_OP_I64_STORE == 55
WASM_OP_F32_STORE == 56
WASM_OP_F64_STORE == 57
WASM_OP_I32_STORE8 == 58
WASM_OP_I32_STORE16 == 59
WASM_OP_MEMORY_SIZE == 63
WASM_OP_MEMORY_GROW == 64
WASM_OP_I32_CONST == 65
WASM_OP_I64_CONST == 66
WASM_OP_F32_CONST == 67
WASM_OP_F64_CONST == 68
WASM_OP_I32_LT_S == 72
WASM_OP_I32_ADD == 106
WASM_PAGE_SIZE == 65536
EMPTY_BLOCKTYPE == 64

\* ------------------------------------------------------------------ values
\* Value is a tagged variant; only the tag and the number are modelled.
I32(n) == [kind |-> "i32", v |-> n]
I64(n) == [kind |-> "i64", v |-> n]

\* A value-initialised Value (what vector::resize appends when it grows).
DefaultValue == I32(0)

zero_value_for(type) == [kind |-> type, v |-> 0]

\* ----------------------------------------------------- decoder primitives
\* RD_BYTE / RD_OPCODE: the byte at the cursor; the cursor advances by one.
RD_BYTE(bytes, ptr) == [val |-> bytes[ptr + 1], ptr |-> ptr + 1]

\* RD_U32: unsigned LEB128.
RECURSIVE RD_U32(_, _)
RD_U32(bytes, ptr) ==
  LET b == bytes[ptr + 1] IN
  IF b < 128 THEN [val |-> b, ptr |-> ptr + 1]
  ELSE LET r == RD_U32(bytes, ptr + 1)
       IN [val |-> (b - 128) + 128 * r.val, ptr |-> r.ptr]

\* RD_I32: signed LEB128 (bit 6 of the last byte is the sign).
RECURSIVE RD_I32(_, _)
RD_I32(bytes, ptr) ==
  LET b == bytes[ptr + 1] IN
  IF b < 64 THEN [val |-> b, ptr |-> ptr + 1]
  ELSE IF b < 128 THEN [val |-> b - 128, ptr |-> ptr + 1]
  ELSE LET r == RD_I32(bytes, ptr + 1)
       IN [val |-> (b - 128) + 128 * r.val, ptr |-> r.ptr]

\* uint32_t values that may exceed 2^31 - 1 are kept as two 16-bit halves,
\* so that no intermediate result leaves the 32-bit signed range; addition
\* drops the carry out of the upper half, as uint32_t arithmetic does.
u32(n) == [hi |-> n \div 65536, lo |-> n % 65536]

u32_add(a, b) ==
  LET lo == a.lo + b.lo IN
  [hi |-> (a.hi + b.hi + lo \div 65536) % 65536, lo |-> lo % 65536]

u32_gt(a, b) == a.hi > b.hi \/ (a.hi = b.hi /\ a.lo > b.lo)

\* The 7-bit groups of an unsigned LEB128 number, least significant first.
RECURSIVE leb_groups(_, _)
leb_groups(bytes, ptr) ==
  LET b == bytes[ptr + 1] IN
  IF b < 128 THEN [groups |-> <<b>>, ptr |-> ptr + 1]
  ELSE LET r == leb_groups(bytes, ptr + 1)
       IN [groups |-> <<b - 128>> \o r.groups, ptr |-> r.ptr]

\* RD_U32 for an immediate of the full 32 bits (a memory offset): group i
\* holds bits 7(i-1) .. 7i-1, and bits above 31 are dropped.
RD_U32_wide(bytes, ptr) ==
  LET r == leb_groups(bytes, ptr)
      g(i) == IF i <= Len(r.groups) THEN r.groups[i] ELSE 0
  IN [val |-> [hi |-> g(3) \div 4 + 32 * g(4) + 4096 * (g(5) % 16),
               lo |-> g(1) + 128 * g(2) + 16384 * (g(3) % 4)],
      ptr |-> r.ptr]

\* ------------------------------------------------------ vector operations
back(s) == s[Len(s)]
pop_back(s) == SubSeq(s, 1, Len(s) - 1)

\* std::vector::resize: truncates, or appends value-initialised elements.
resize(s, h, fill) ==
  IF h <= Len(s) THEN SubSeq(s, 1, h)
  ELSE s \o [i \in 1..(h - Len(s)) |-> fill]

\* pop_to(h): operand_stack_.resize(h)
pop_to(stack, h) == resize(stack, h, DefaultValue)

\* std::unordered_map: ctrl_map[k] = v
MapPut(m, k, v) == [x \in (DOMAIN m) \cup {k} |-> IF x = k THEN v ELSE m[x]]

\* --------------------------------------------------------- skip_immediate
skip_immediate(opcode, bytes, ptr) ==
  CASE opcode \in {WASM_OP_BLOCK, WASM_OP_LOOP, WASM_OP_IF} ->
         RD_BYTE(bytes, ptr).ptr
    [] opcode \in {WASM_OP_BR, WASM_OP_BR_IF, WASM_OP_CALL, WASM_OP_LOCAL_GET,
                   WASM_OP_LOCAL_SET, WASM_OP_LOCAL_TEE, WASM_OP_GLOBAL_GET,
                   WASM_OP_GLOBAL_SET, WASM_OP_MEMORY_SIZE,
                   WASM_OP_MEMORY_GROW} ->
         RD_U32(bytes, ptr).ptr
    [] opcode = WASM_OP_CALL_INDIRECT ->
         RD_U32(bytes, RD_U32(bytes, ptr).ptr).ptr
    [] opcode = WASM_OP_BR_TABLE ->
         LET n == RD_U32(bytes, ptr)
             skipN[i \in 0..n.val] ==
               IF i = 0 THEN n.ptr ELSE RD_U32(bytes, skipN[i - 1]).ptr
         IN RD_U32(bytes, skipN[n.val]).ptr
    [] opcode \in {WASM_OP_I32_LOAD, WASM_OP_I64_LOAD, WASM_OP_F32_LOAD,
                   WASM_OP_F64_LOAD, WASM_OP_I32_LOAD8_S, WASM_OP_I32_LOAD8_U,
                   WASM_OP_I32_LOAD16_S, WASM_OP_I32_LOAD16_U,
                   WASM_OP_I32_STORE, WASM_OP_I64_STORE, WASM_OP_F32_STORE,
                   WASM_OP_F64_STORE, WASM_OP_I32_STORE8,
                   WASM_OP_I32_STORE16} ->
         RD_U32_wide(bytes, RD_U32(bytes, ptr).ptr).ptr
    [] opcode \in {WASM_OP_I32_CONST, WASM_OP_I64_CONST} ->
         RD_I32(bytes, ptr).ptr
    [] opcode = WASM_OP_F32_CONST -> ptr + 4
    [] opcode = WASM_OP_F64_CONST -> ptr + 8
    [] OTHER -> ptr

\* ----------------------------------------------------------- pre_indexing
\* The result is [ok |-> FALSE] when pre_indexing throws, and otherwise
\* [ok |-> TRUE, map |-> ctrl_map].
\*
\* At an `end` the code binds references to ctrl_stack.back(), pops the
\* vector and then writes and reads through the references.  The element type
\* is trivially destructible, pop_back leaves the storage in place and
\* nothing is pushed before the read, so the read yields the popped entry.
KindOfHeader(opcode) ==
  CASE opcode = WASM_OP_LOOP -> "Loop"
    [] opcode = WASM_OP_IF -> "If"
    [] opcode = WASM_OP_BLOCK -> "Block"

RECURSIVE pre_indexing_scan(_, _, _, _)
pre_indexing_scan(bytes, ptr, ctrl_stack, ctrl_map) ==
  IF ptr >= Len(bytes)
  THEN IF ctrl_stack # <<>> THEN [ok |-> FALSE]
       ELSE [ok |-> TRUE, map |-> ctrl_map]
  ELSE
    LET opcode_ptr == ptr
        opcode == RD_BYTE(bytes, ptr).val
        buf == RD_BYTE(bytes, ptr).ptr
    IN
    CASE opcode \in {WASM_OP_LOOP, WASM_OP_IF, WASM_OP_BLOCK} ->
           LET block_type == RD_BYTE(bytes, buf) IN
           IF block_type.val # EMPTY_BLOCKTYPE THEN [ok |-> FALSE]
           ELSE pre_indexing_scan(bytes, block_type.ptr,
                  Append(ctrl_stack,
                         [header |-> opcode_ptr,
                          meta |-> [kind |-> KindOfHeader(opcode),
                                    else_pc |-> NULL, end |-> NULL]]),
                  ctrl_map)
      [] opcode = WASM_OP_ELSE ->
           IF ctrl_stack = <<>> \/ back(ctrl_stack).meta.kind # "If"
           THEN [ok |-> FALSE]
           ELSE pre_indexing_scan(bytes, buf,
                  [ctrl_stack EXCEPT ![Len(ctrl_stack)].meta.else_pc = buf],
                  ctrl_map)
      [] opcode = WASM_OP_END ->
           IF ctrl_stack = <<>> THEN [ok |-> FALSE]
           ELSE LET ctrl_header == back(ctrl_stack).header
                    meta == [back(ctrl_stack).meta EXCEPT !.end = opcode_ptr]
                IN pre_indexing_scan(bytes, buf, pop_back(ctrl_stack),
                                     MapPut(ctrl_map, ctrl_header, meta))
      [] OTHER ->
           pre_indexing_scan(bytes, skip_immediate(opcode, bytes, buf),
                             ctrl_stack, ctrl_map)

pre_indexing(f) ==
  pre_indexing_scan(f.code_bytes, 0,
    << [header |-> 0,
        meta |-> [kind |-> "Block", else_pc |-> NULL,
                  end |-> Len(f.code_bytes)]] >>,
    << >>)

\* ------------------------------------------------------------ linear memory
\* linear_memory_ is a std::vector<byte> of `size` bytes; `data` holds the
\* bytes that are not zero, by address.
ZeroMemory(size) == [size |-> size, data |-> [a \in {} |-> 0]]

ByteAt(mem, a) == IF a \in DOMAIN mem.data THEN mem.data[a] ELSE 0

\* std::memcpy(&linear_memory_[dst], bytes, Len(bytes))
memcpy(mem, dst, bytes) ==
  LET written == dst .. (dst + Len(bytes) - 1)
      val(a) == IF a \in written THEN bytes[a - dst + 1] ELSE ByteAt(mem, a)
      keep == {a \in (DOMAIN mem.data) \cup written : val(a) # 0}
  IN [size |-> mem.size, data |-> [a \in keep |-> val(a)]]

\* The four bytes of v, most significant first.
i32_store_bytes_big_endian(v) ==
  << (v \div 16777216) % 256, (v \div 65536) % 256, (v \div 256) % 256,
     v % 256 >>

\* The four bytes of static_cast<uint32_t>(v), least significant first (the
\* object representation memcpy copies on a little-endian build).
i32_store_bytes(v) ==
  << v % 256, (v \div 256) % 256, (v \div 65536) % 256,
     (v \div 16777216) % 256 >>

\* memcpy of four bytes into a uint32_t, then static_cast<int32_t>: a top
\* byte of 128 or more gives a negative value.
i32_load_bytes(mem, a) ==
  LET b0 == ByteAt(mem, a)
      b1 == ByteAt(mem, a + 1)
      b2 == ByteAt(mem, a + 2)
      b3 == ByteAt(mem, a + 3)
  IN b0 + 256 * b1 + 65536 * b2
     + 16777216 * (IF b3 >= 128 THEN b3 - 256 ELSE b3)

\* ----------------------------------------------------- reset_runtime_state
\* prepare_function_instances: the module's functions, in order.
function_instances_ == module_.funcs

\* cache_linear_memory_layout: the initial pages of the first memory that is
\* not imported, 0 without one.
initial_linear_memory_pages_ ==
  IF Len(module_.mems) > module_.num_imported_mems
  THEN module_.mems[module_.num_imported_mems + 1]
  ELSE 0

\* cache_table_layout: the initial sizes of the tables that are not imported.
local_table_initial_sizes_ ==
  IF Len(module_.tables) > module_.num_imported_tables
  THEN SubSeq(module_.tables, module_.num_imported_tables + 1,
              Len(module_.tables))
  ELSE <<>>

\* prepare_globals_storage
prepare_globals_storage == module_.globals

\* prepare_data_segments: [ok |-> FALSE] when a segment does not fit; the
\* segments before it have been copied by then.
RECURSIVE prepare_data_segments(_, _)
prepare_data_segments(datas, mem) ==
  IF datas = <<>> THEN [ok |-> TRUE, mem |-> mem]
  ELSE LET seg == Head(datas) IN
       IF seg.mem_offset + Len(seg.bytes) > mem.size
       THEN [ok |-> FALSE, mem |-> mem]
       ELSE prepare_data_segments(Tail(datas),
                                  memcpy(mem, seg.mem_offset, seg.bytes))

\* The inner loop of prepare_element_segments: table[cursor++] = func_ptr,
\* throwing when cursor reaches table.size().
RECURSIVE write_elements(_, _, _)
write_elements(table, cursor, func_indices) ==
  IF func_indices = <<>> THEN [ok |-> TRUE, table |-> table]
  ELSE IF cursor >= Len(table) THEN [ok |-> FALSE, table |-> table]
  ELSE write_elements([table EXCEPT ![cursor + 1] = Head(func_indices)],
                      cursor + 1, Tail(func_indices))

\* prepare_element_segments: every segment targets table 0.
RECURSIVE element_segments(_, _)
element_segments(elems, tables) ==
  IF elems = <<>> THEN [ok |-> TRUE, tables |-> tables]
  ELSE
    LET elem == Head(elems)
        table_index == 0
        imported_tables == module_.num_imported_tables
        local_table_index == table_index - imported_tables
    IN
    IF table_index < imported_tables THEN [ok |-> FALSE, tables |-> tables]
    ELSE IF local_table_index >= Len(tables)
    THEN [ok |-> FALSE, tables |-> tables]
    ELSE IF elem.table_offset > Len(tables[local_table_index + 1])
    THEN [ok |-> FALSE, tables |-> tables]
    ELSE
      LET w == write_elements(tables[local_table_index + 1],
                              elem.table_offset, elem.func_indices)
          written == [tables EXCEPT ![local_table_index + 1] = w.table]
      IN IF ~w.ok THEN [ok |-> FALSE, tables |-> written]
         ELSE element_segments(Tail(elems), written)

prepare_element_segments(tables) ==
  IF Len(module_.tables) = 0 THEN [ok |-> TRUE, tables |-> tables]
  ELSE element_segments(module_.elems, tables)

\* reset_runtime_state with the globals left as the previous run left them
\* (on the first run they are the initial values).
reset_runtime_state_stale_globals ==
  LET zeroed == ZeroMemory(initial_linear_memory_pages_ * WASM_PAGE_SIZE)
      nulls == [t \in 1..Len(local_table_initial_sizes_) |->
                  [e \in 1..local_table_initial_sizes_[t] |-> NULL]]
      globals == IF runs = <<>> THEN prepare_globals_storage
                 ELSE global_values_
      datas == prepare_data_segments(module_.datas, zeroed)
      elems == prepare_element_segments(nulls)
  IN [ok |-> datas.ok /\ elems.ok,
      linear_memory |-> datas.mem,
      tables |-> IF datas.ok THEN elems.tables ELSE nulls,
      globals |-> globals]

\* reset_runtime_state: the memory is zeroed, the tables are rebuilt with
\* null entries, both stacks are cleared (the caller of this operator does
\* that), the globals take their initial values, and the data and element
\* segments are applied.  ok is FALSE when a segment throws; the fields hold
\* what had been written by then.
reset_runtime_state ==
  LET zeroed == ZeroMemory(initial_linear_memory_pages_ * WASM_PAGE_SIZE)
      nulls == [t \in 1..Len(local_table_initial_sizes_) |->
                  [e \in 1..local_table_initial_sizes_[t] |-> NULL]]
      globals == prepare_globals_storage
      datas == prepare_data_segments(module_.datas, zeroed)
      elems == prepare_element_segments(nulls)
  IN [ok |-> datas.ok /\ elems.ok,
      linear_memory |-> datas.mem,
      tables |-> IF datas.ok THEN elems.tables ELSE nulls,
      globals |-> globals]

\* validate_main_signature(argc); main_ is the function exported as "main".
main_ == module_.main
validate_main_signature(argc) ==
  main_ # NULL /\ Len(function_instances_[main_ + 1].params) = argc

\* std::stoi / std::stoll on a string of decimal digits.
RECURSIVE stoi(_)
stoi(s) == IF s = <<>> THEN 0 ELSE 10 * stoi(SubSeq(s, 1, Len(s) - 1)) + s[Len(s)]

make_from(s, type) == [kind |-> type, v |-> stoi(s)]

\* push_main_arguments: one Value per argument string, typed by the
\* parameter at the same position.
push_main_arguments(stack, mainargs) ==
  stack \o [i \in 1..Len(mainargs) |->
              make_from(mainargs[i], function_instances_[main_ + 1].params[i])]

\* ------------------------------------------------------- build_locals_for
\* [ok |-> FALSE] when it throws; otherwise the locals and the operand stack
\* with the parameters popped.  locals[param_count - 1 - i] = pop(): the
\* parameters keep the order in which the caller pushed them.
\* f.pure_locals is the list of local groups (count, type); the inner loops
\* write zero_value_for(group.type) at next_local++, group after group.
RECURSIVE pure_local_types(_)
pure_local_types(groups) ==
  IF groups = <<>> THEN <<>>
  ELSE [i \in 1..Head(groups).count |-> Head(groups).type]
       \o pure_local_types(Tail(groups))

\* build_locals_for with locals[i] = pop(): the parameters end up reversed.
build_locals_for_reversed(f, stack) ==
  LET param_count == Len(f.params)
      types == pure_local_types(f.pure_locals)
  IN
  IF Len(stack) < param_count THEN [ok |-> FALSE]
  ELSE [ok |-> TRUE,
        locals |-> [j \in 1..(param_count + f.num_pure_locals) |->
                      IF j <= param_count
                      THEN stack[Len(stack) - j + 1]
                      ELSE IF j - param_count <= Len(types)
                      THEN zero_value_for(types[j - param_count])
                      ELSE DefaultValue],
        stack |-> SubSeq(stack, 1, Len(stack) - param_count)]

build_locals_for(f, stack) ==
  LET param_count == Len(f.params)
      types == pure_local_types(f.pure_locals)
  IN
  IF Len(stack) < param_count THEN [ok |-> FALSE]
  ELSE [ok |-> TRUE,
        locals |-> [j \in 1..(param_count + f.num_pure_locals) |->
                      IF j <= param_count
                      THEN stack[Len(stack) - param_count + j]
                      ELSE IF j - param_count <= Len(types)
                      THEN zero_value_for(types[j - param_count])
                      ELSE DefaultValue],
        stack |-> SubSeq(stack, 1, Len(stack) - param_count)]

\* -------------------------------------------------------------- add_frame
\* [ok |-> FALSE, stack, cs] when pre_indexing or build_locals_for throws
\* (nothing has been popped or pushed by then), otherwise the operand stack
\* and the call stack with the new frame pushed.  The function-body label is
\* value-initialised and its pc_target is never assigned: it stays null.
add_frame(func_idx, stack, cs) ==
  LET f == function_instances_[func_idx + 1]
      ctrl_map == pre_indexing(f)
  IN
  IF ~ctrl_map.ok THEN [ok |-> FALSE, stack |-> stack, cs |-> cs]
  ELSE
    LET built == build_locals_for(f, stack) IN
    IF ~built.ok THEN [ok |-> FALSE, stack |-> stack, cs |-> cs]
    ELSE
      LET function_body == [kind |-> "Implicit", pc_target |-> NULL,
                            pc_else |-> NULL,
                            stack_height |-> Len(built.stack)]
          frame == [func |-> func_idx,
                    pc |-> 0,
                    locals |-> built.locals,
                    labels |-> <<function_body>>,
                    stack_height_on_entry |-> Len(built.stack),
                    ctrl_map |-> ctrl_map.map]
      IN [ok |-> TRUE, stack |-> built.stack, cs |-> Append(cs, frame)]

\* ------------------------------------------------------- function return
\* function_return without the std::reverse of the popped results.
function_return_unreversed(frame, stack) ==
  LET retc == Len(module_.funcs[frame.func + 1].results) IN
  IF Len(stack) < retc THEN [ok |-> FALSE]
  ELSE
    LET popped == [i \in 1..retc |-> stack[Len(stack) - i + 1]]
        rest == SubSeq(stack, 1, Len(stack) - retc)
    IN [ok |-> TRUE, stack |-> pop_to(rest, frame.stack_height_on_entry) \o popped]

\* function_return without pop_to(frame.stack_height_on_entry).
function_return_keep_stack(frame, stack) ==
  LET retc == Len(module_.funcs[frame.func + 1].results) IN
  IF Len(stack) < retc THEN [ok |-> FALSE]
  ELSE
    LET popped == [i \in 1..retc |-> stack[Len(stack) - i + 1]]
        rets == [i \in 1..retc |-> popped[retc - i + 1]]
        rest == SubSeq(stack, 1, Len(stack) - retc)
    IN [ok |-> TRUE, stack |-> rest \o rets]

\* The common tail of `return` and of the function-body `end`:
\* [ok |-> FALSE] when fewer than retc values are on the operand stack,
\* otherwise the operand stack after `frame` has returned.
function_return(frame, stack) ==
  LET retc == Len(module_.funcs[frame.func + 1].results) IN
  IF Len(stack) < retc THEN [ok |-> FALSE]
  ELSE
    LET \* rets.push_back(pop()) retc times, then std::reverse
        popped == [i \in 1..retc |-> stack[Len(stack) - i + 1]]
        rets == [i \in 1..retc |-> popped[retc - i + 1]]
        rest == SubSeq(stack, 1, Len(stack) - retc)
    IN [ok |-> TRUE, stack |-> pop_to(rest, frame.stack_height_on_entry) \o rets]

\* ------------------------------------------------------------- dispatcher
\* Frame& frame = call_stack_.back(); buffer_t& buf = frame.pc
fr == back(call_stack_)
code == module_.funcs[fr.func + 1].code_bytes

\* invoke's loop is running and run_op finds an opcode `op` at the cursor.
AtOpcode(op) ==
  /\ status = "running"
  /\ call_stack_ # <<>>
  /\ fr.pc # NULL
  /\ fr.pc < Len(code)
  /\ RD_BYTE(code, fr.pc).val = op

\* The address of the opcode and the cursor after it.
header == fr.pc
buf0 == RD_BYTE(code, fr.pc).ptr

SetPc(cs, pc) == [cs EXCEPT ![Len(cs)].pc = pc]
SetLabels(cs, labels) == [cs EXCEPT ![Len(cs)].labels = labels]
TrapLine == [text |-> "!trap"]

\* What the step that led to the current state was, and the state it started
\* from (the dispatcher's iteration boundary before it).
Record(op, imm) ==
  last' = [op |-> op, imm |-> imm,
           operand_stack |-> operand_stack_, call_stack |-> call_stack_,
           linear_memory |-> linear_memory_, global_values |-> global_values_]

\* The catch block of run: `!trap` on stdout, and run returns.
Caught(stack, cs) ==
  /\ operand_stack_' = stack
  /\ call_stack_' = cs
  /\ status' = "trapped"
  /\ output' = Append(output, TrapLine)

\* Throw with a catch block that returns without printing.
Throw_unprinted(stack, cs) ==
  /\ operand_stack_' = stack
  /\ call_stack_' = cs
  /\ status' = "trapped"
  /\ UNCHANGED <<output, linear_memory_, global_values_, instance>>

\* A throw inside invoke unwinds to the catch of run, which prints `!trap` and
\* returns; the stacks stay as the throwing code left them.
Throw(stack, cs) ==
  /\ Caught(stack, cs)
  /\ UNCHANGED <<linear_memory_, global_values_, instance>>

\* run_op returns and invoke's loop goes round.
Continue(stack, cs) ==
  /\ operand_stack_' = stack
  /\ call_stack_' = cs
  /\ UNCHANGED <<status, output, linear_memory_, global_values_, instance>>

\* run, up to and including the add_frame(main_) of invoke.  A throw of
\* reset_runtime_state is outside run's try block: it leaves run as an
\* exception, and nothing is printed.  A throw of add_frame is inside it.
\* runs keeps, for every call of run, its arguments and where its output
\* starts.
Run(mainargs) ==
  /\ status \in {"idle", "done", "trapped", "rejected"}
  /\ Len(runs) < MaxRuns
  /\ Record("run", mainargs)
  /\ runs' = Append(runs, [args |-> mainargs, start |-> Len(output)])
  /\ UNCHANGED module_
  /\ IF main_ = NULL
     THEN /\ status' = "rejected"
          /\ UNCHANGED <<linear_memory_, table_instances_, global_values_,
                         operand_stack_, call_stack_, output>>
     ELSE
       LET reset == reset_runtime_state IN
       /\ linear_memory_' = reset.linear_memory
       /\ table_instances_' = reset.tables
       /\ global_values_' = reset.globals
       /\ IF ~reset.ok
          THEN /\ status' = "escaped"
               /\ operand_stack_' = <<>>
               /\ call_stack_' = <<>>
               /\ UNCHANGED output
          ELSE IF ~validate_main_signature(Len(mainargs))
          THEN /\ status' = "rejected"
               /\ operand_stack_' = <<>>
               /\ call_stack_' = <<>>
               /\ UNCHANGED output
          ELSE LET pushed == push_main_arguments(<<>>, mainargs)
                   added == add_frame(main_, pushed, <<>>)
               IN IF added.ok
                  THEN /\ status' = "running"
                       /\ operand_stack_' = added.stack
                       /\ call_stack_' = added.cs
                       /\ UNCHANGED output
                  ELSE Caught(added.stack, added.cs)

\* run_op: the cursor is at or past the end of the code.
ReachedEndOfBuffer ==
  /\ status = "running"
  /\ call_stack_ # <<>>
  /\ fr.pc # NULL
  /\ fr.pc >= Len(code)
  /\ Record("end_of_buffer", 0)
  /\ Throw(operand_stack_, call_stack_)

\* run_op with a null cursor: null is not >= buf.end, so RD_OPCODE reads
\* through the null pointer.  The process dies; nothing is printed.
NullCursor ==
  /\ status = "running"
  /\ call_stack_ # <<>>
  /\ fr.pc = NULL
  /\ Record("null_cursor", 0)
  /\ status' = "crashed"
  /\ UNCHANGED <<operand_stack_, call_stack_, output, linear_memory_,
                 global_values_, instance>>

Op_I32Const ==
  /\ AtOpcode(WASM_OP_I32_CONST)
  /\ Len(operand_stack_) < MaxStack
  /\ LET v == RD_I32(code, buf0) IN
     /\ Record("i32.const", v.val)
     /\ Continue(Append(operand_stack_, I32(v.val)), SetPc(call_stack_, v.ptr))

Op_I64Const ==
  /\ AtOpcode(WASM_OP_I64_CONST)
  /\ Len(operand_stack_) < MaxStack
  /\ LET v == RD_I32(code, buf0) IN
     /\ Record("i64.const", v.val)
     /\ Continue(Append(operand_stack_, I64(v.val)), SetPc(call_stack_, v.ptr))

Op_LocalGet ==
  /\ AtOpcode(WASM_OP_LOCAL_GET)
  /\ Len(operand_stack_) < MaxStack
  /\ LET local_idx == RD_U32(code, buf0)
         cs == SetPc(call_stack_, local_idx.ptr)
     IN /\ Record("local.get", local_idx.val)
        /\ IF local_idx.val >= Len(fr.locals)
           THEN Throw(operand_stack_, cs)
           ELSE Continue(Append(operand_stack_, fr.locals[local_idx.val + 1]),
                         cs)

\* pop() throws on an empty operand stack, before the index is checked.
Op_LocalSet ==
  /\ AtOpcode(WASM_OP_LOCAL_SET)
  /\ LET local_idx == RD_U32(code, buf0)
         cs == SetPc(call_stack_, local_idx.ptr)
     IN /\ Record("local.set", local_idx.val)
        /\ IF operand_stack_ = <<>> THEN Throw(operand_stack_, cs)
           ELSE IF local_idx.val >= Len(fr.locals)
           THEN Throw(pop_back(operand_stack_), cs)
           ELSE Continue(pop_back(operand_stack_),
                  [cs EXCEPT ![Len(cs)].locals[local_idx.val + 1] =
                                back(operand_stack_)])

Op_Drop ==
  /\ AtOpcode(WASM_OP_DROP)
  /\ Record("drop", 0)
  /\ IF Len(operand_stack_) < 1
     THEN Throw(operand_stack_, SetPc(call_stack_, buf0))
     ELSE Continue(pop_back(operand_stack_), SetPc(call_stack_, buf0))

\* WASM_OP_SELECT: the condition is popped before its kind is tested; the
\* kinds of val1 and val2 are not looked at.
Op_Select ==
  /\ AtOpcode(WASM_OP_SELECT)
  /\ Record("select", 0)
  /\ LET cs == SetPc(call_stack_, buf0) IN
     IF Len(operand_stack_) < 3 THEN Throw(operand_stack_, cs)
     ELSE
       LET condition == back(operand_stack_)
           val2 == operand_stack_[Len(operand_stack_) - 1]
           val1 == operand_stack_[Len(operand_stack_) - 2]
           rest == SubSeq(operand_stack_, 1, Len(operand_stack_) - 3)
       IN IF condition.kind # "i32"
          THEN Throw(pop_back(operand_stack_), cs)
          ELSE LET selected == IF condition.v # 0 THEN val1 ELSE val2
               IN Continue(Append(rest, selected), cs)

Op_Nop ==
  /\ AtOpcode(WASM_OP_NOP)
  /\ Record("nop", 0)
  /\ Continue(operand_stack_, SetPc(call_stack_, buf0))

Op_Unreachable ==
  /\ AtOpcode(WASM_OP_UNREACHABLE)
  /\ Record("unreachable", 0)
  /\ Throw(operand_stack_, SetPc(call_stack_, buf0))

\* ------------------------------------------------- structured control flow
\* ctrl_map.at(header) throws std::out_of_range when the header has no entry.
\* WASM_OP_BLOCK whose label records the height below the top operand.
Op_Block_height_below_top ==
  /\ AtOpcode(WASM_OP_BLOCK)
  /\ LET block_type == RD_BYTE(code, buf0)
         cs == SetPc(call_stack_, block_type.ptr)
     IN /\ Record("block", 0)
        /\ IF block_type.val # EMPTY_BLOCKTYPE \/ header \notin DOMAIN fr.ctrl_map
           THEN Throw(operand_stack_, cs)
           ELSE LET block == [kind |-> "Block",
                              pc_target |-> fr.ctrl_map[header].end,
                              pc_else |-> NULL,
                              stack_height |->
                                IF operand_stack_ = <<>> THEN 0
                                ELSE Len(operand_stack_) - 1]
                IN Continue(operand_stack_,
                            SetLabels(cs, Append(fr.labels, block)))

Op_Block ==
  /\ AtOpcode(WASM_OP_BLOCK)
  /\ LET block_type == RD_BYTE(code, buf0)
         cs == SetPc(call_stack_, block_type.ptr)
     IN /\ Record("block", 0)
        /\ IF block_type.val # EMPTY_BLOCKTYPE \/ header \notin DOMAIN fr.ctrl_map
           THEN Throw(operand_stack_, cs)
           ELSE LET block == [kind |-> "Block",
                              pc_target |-> fr.ctrl_map[header].end,
                              pc_else |-> NULL,
                              stack_height |-> Len(operand_stack_)]
                IN Continue(operand_stack_,
                            SetLabels(cs, Append(fr.labels, block)))

Op_Loop ==
  /\ AtOpcode(WASM_OP_LOOP)
  /\ LET block_type == RD_BYTE(code, buf0)
         cs == SetPc(call_stack_, block_type.ptr)
     IN /\ Record("loop", 0)
        /\ IF block_type.val # EMPTY_BLOCKTYPE
           THEN Throw(operand_stack_, cs)
           ELSE LET loop == [kind |-> "Loop",
                             pc_target |-> block_type.ptr,
                             pc_else |-> NULL,
                             stack_height |-> Len(operand_stack_)]
                IN Continue(operand_stack_,
                            SetLabels(cs, Append(fr.labels, loop)))

\* The label is built and pushed with stack_height = sp() before the
\* condition is popped.
Op_If ==
  /\ AtOpcode(WASM_OP_IF)
  /\ LET block_type == RD_BYTE(code, buf0)
         cs == SetPc(call_stack_, block_type.ptr)
     IN /\ Record("if", 0)
        /\ IF \/ block_type.val # EMPTY_BLOCKTYPE
              \/ Len(operand_stack_) < 1
              \/ header \notin DOMAIN fr.ctrl_map
           THEN Throw(operand_stack_, cs)
           ELSE
             LET if_label == [kind |-> "If",
                              pc_target |-> fr.ctrl_map[header].end,
                              pc_else |-> NULL,
                              stack_height |-> Len(operand_stack_)]
                 pushed == SetLabels(cs, Append(fr.labels, if_label))
                 condition == back(operand_stack_)
                 popped == pop_back(operand_stack_)
             IN IF condition.kind # "i32" THEN Throw(popped, pushed)
                ELSE IF condition.v # 0 THEN Continue(popped, pushed)
                ELSE IF fr.ctrl_map[header].else_pc # NULL
                THEN Continue(popped, SetPc(pushed, fr.ctrl_map[header].else_pc))
                ELSE Continue(popped, SetPc(pushed, if_label.pc_target))

Op_Else ==
  /\ AtOpcode(WASM_OP_ELSE)
  /\ Record("else", 0)
  /\ IF fr.labels = <<>> \/ back(fr.labels).kind # "If"
     THEN Throw(operand_stack_, SetPc(call_stack_, buf0))
     ELSE Continue(operand_stack_,
                   SetLabels(SetPc(call_stack_, back(fr.labels).pc_target),
                             pop_back(fr.labels)))

\* `closed` is read after labels.pop_back(): the popped Label is still in the
\* vector's storage (nothing is pushed in between), so its stack_height is
\* the popped label's.
Op_End ==
  /\ AtOpcode(WASM_OP_END)
  /\ Record("end", 0)
  /\ IF fr.labels = <<>>
     THEN Throw(operand_stack_, SetPc(call_stack_, buf0))
     ELSE
       LET closed == back(fr.labels)
           cs == SetLabels(SetPc(call_stack_, buf0), pop_back(fr.labels))
           is_function_end == pop_back(fr.labels) = <<>>
       IN IF is_function_end
          THEN LET ret == function_return(fr, operand_stack_) IN
               IF ~ret.ok THEN Throw(operand_stack_, cs)
               ELSE Continue(ret.stack, pop_back(cs))
          ELSE Continue(pop_to(operand_stack_, closed.stack_height), cs)

Op_Return ==
  /\ AtOpcode(WASM_OP_RETURN)
  /\ Record("return", 0)
  /\ LET ret == function_return(fr, operand_stack_)
         cs == SetPc(call_stack_, buf0)
     IN IF ~ret.ok THEN Throw(operand_stack_, cs)
        ELSE Continue(ret.stack, pop_back(cs))

\* The effect of WASM_OP_BR once label_idx has been read (the cursor of the
\* top frame of cs is past the immediate): [ok |-> FALSE] when it throws.
\* labels.resize(size - label_idx) keeps the target label on the stack.
br(label_idx, stack, cs) ==
  LET labels == back(cs).labels IN
  IF label_idx >= Len(labels) THEN [ok |-> FALSE, stack |-> stack, cs |-> cs]
  ELSE LET target_label == labels[Len(labels) - label_idx] IN
       [ok |-> TRUE,
        stack |-> pop_to(stack, target_label.stack_height),
        cs |-> SetPc(SetLabels(cs, SubSeq(labels, 1, Len(labels) - label_idx)),
                     target_label.pc_target)]

Op_Br ==
  /\ AtOpcode(WASM_OP_BR)
  /\ LET label_idx == RD_U32(code, buf0)
         r == br(label_idx.val, operand_stack_, SetPc(call_stack_, label_idx.ptr))
     IN /\ Record("br", label_idx.val)
        /\ IF r.ok THEN Continue(r.stack, r.cs) ELSE Throw(r.stack, r.cs)

\* The effect of WASM_OP_BR_IF once label_idx has been read.  A taken branch
\* sets the cursor to the target's pc_target and then does labels.pop_back().
br_if(label_idx, stack, cs) ==
  LET labels == back(cs).labels IN
  IF Len(stack) < 1 THEN [ok |-> FALSE, stack |-> stack, cs |-> cs]
  ELSE
    LET cond == back(stack)
        popped == pop_back(stack)
    IN IF cond.kind # "i32" THEN [ok |-> FALSE, stack |-> popped, cs |-> cs]
       ELSE IF cond.v = 0 THEN [ok |-> TRUE, stack |-> popped, cs |-> cs]
       ELSE IF label_idx >= Len(labels)
       THEN [ok |-> FALSE, stack |-> popped, cs |-> cs]
       ELSE LET target_label == labels[Len(labels) - label_idx] IN
            [ok |-> TRUE, stack |-> popped,
             cs |-> SetLabels(SetPc(cs, target_label.pc_target),
                              pop_back(labels))]

Op_BrIf ==
  /\ AtOpcode(WASM_OP_BR_IF)
  /\ LET label_idx == RD_U32(code, buf0)
         r == br_if(label_idx.val, operand_stack_,
                    SetPc(call_stack_, label_idx.ptr))
     IN /\ Record("br_if", label_idx.val)
        /\ IF r.ok THEN Continue(r.stack, r.cs) ELSE Throw(r.stack, r.cs)

\* WASM_OP_CALL that leaves the caller's cursor on the call opcode.
Op_Call_cursor_at_opcode ==
  /\ AtOpcode(WASM_OP_CALL)
  /\ Len(call_stack_) < MaxFrames
  /\ LET func_idx == RD_U32(code, buf0)
         cs == call_stack_
     IN /\ Record("call", func_idx.val)
        /\ IF func_idx.val >= Len(function_instances_) THEN Throw(operand_stack_, cs)
           ELSE LET added == add_frame(func_idx.val, operand_stack_, cs) IN
                IF added.ok THEN Continue(added.stack, added.cs)
                ELSE Throw(added.stack, added.cs)

\* function_instances_ is the module's functions in order.
Op_Call ==
  /\ AtOpcode(WASM_OP_CALL)
  /\ Len(call_stack_) < MaxFrames
  /\ LET func_idx == RD_U32(code, buf0)
         cs == SetPc(call_stack_, func_idx.ptr)
     IN /\ Record("call", func_idx.val)
        /\ IF func_idx.val >= Len(function_instances_) THEN Throw(operand_stack_, cs)
           ELSE LET added == add_frame(func_idx.val, operand_stack_, cs) IN
                IF added.ok THEN Continue(added.stack, added.cs)
                ELSE Throw(added.stack, added.cs)

\* ------------------------------------------------------------- arithmetic
\* std::get<std::int32_t> throws std::bad_variant_access on another kind.
\* The sum of two int32 values is in range for the programs enumerated here.
Op_I32Add ==
  /\ AtOpcode(WASM_OP_I32_ADD)
  /\ Record("i32.add", 0)
  /\ LET cs == SetPc(call_stack_, buf0) IN
     IF Len(operand_stack_) < 2 THEN Throw(operand_stack_, cs)
     ELSE LET val2 == back(operand_stack_)
              val1 == back(pop_back(operand_stack_))
              popped == pop_back(pop_back(operand_stack_))
          IN IF val1.kind # "i32" \/ val2.kind # "i32" THEN Throw(popped, cs)
             ELSE Continue(Append(popped, I32(val1.v + val2.v)), cs)

Op_I32LtS ==
  /\ AtOpcode(WASM_OP_I32_LT_S)
  /\ Record("i32.lt_s", 0)
  /\ LET cs == SetPc(call_stack_, buf0) IN
     IF Len(operand_stack_) < 2 THEN Throw(operand_stack_, cs)
     ELSE LET val2 == back(operand_stack_)
              val1 == back(pop_back(operand_stack_))
              popped == pop_back(pop_back(operand_stack_))
          IN IF val1.kind # "i32" \/ val2.kind # "i32" THEN Throw(popped, cs)
             ELSE Continue(Append(popped,
                                  I32(IF val1.v < val2.v THEN 1 ELSE 0)), cs)

\* ----------------------------------------------------------------- globals
Op_GlobalGet ==
  /\ AtOpcode(WASM_OP_GLOBAL_GET)
  /\ Len(operand_stack_) < MaxStack
  /\ LET global_idx == RD_U32(code, buf0)
         cs == SetPc(call_stack_, global_idx.ptr)
     IN /\ Record("global.get", global_idx.val)
        /\ IF global_idx.val >= Len(global_values_)
           THEN Throw(operand_stack_, cs)
           ELSE Continue(Append(operand_stack_,
                                global_values_[global_idx.val + 1]), cs)

\* pop() throws on an empty operand stack, before the index is checked.
Op_GlobalSet ==
  /\ AtOpcode(WASM_OP_GLOBAL_SET)
  /\ LET global_idx == RD_U32(code, buf0)
         cs == SetPc(call_stack_, global_idx.ptr)
     IN /\ Record("global.set", global_idx.val)
        /\ IF operand_stack_ = <<>> THEN Throw(operand_stack_, cs)
           ELSE IF global_idx.val >= Len(global_values_)
           THEN Throw(pop_back(operand_stack_), cs)
           ELSE /\ operand_stack_' = pop_back(operand_stack_)
                /\ call_stack_' = cs
                /\ global_values_' =
                     [global_values_ EXCEPT ![global_idx.val + 1] =
                                              back(operand_stack_)]
                /\ UNCHANGED <<status, output, linear_memory_, instance>>

\* ------------------------------------------------------------------ memory
\* effective_addr = addr + offset is a uint32 sum and effective_addr + 4 is
\* compared with linear_memory_.size(); the programs enumerated here keep
\* addr + offset + 4 far below 2^32, where neither sum wraps.
\* The bounds check with >= in place of >.
out_of_bounds_at_the_end(effective_addr) ==
  \/ u32_gt(u32_add(effective_addr, u32(4)), u32(linear_memory_.size))
  \/ u32_add(effective_addr, u32(4)) = u32(linear_memory_.size)

\* effective_addr + 4 > linear_memory_.size(): the sum is an unsigned 32-bit
\* one (uint32_t + int) and wraps before it is widened for the comparison.
out_of_bounds(effective_addr) ==
  u32_gt(u32_add(effective_addr, u32(4)), u32(linear_memory_.size))

\* &linear_memory_[effective_addr] .. + 4 lies inside the vector.
in_vector(effective_addr) ==
  /\ effective_addr.hi < 32768
  /\ effective_addr.hi * 65536 + effective_addr.lo <= linear_memory_.size - 4

index_of(effective_addr) == effective_addr.hi * 65536 + effective_addr.lo

\* The process dies inside run_op; nothing is printed.
Crash(stack, cs) ==
  /\ operand_stack_' = stack
  /\ call_stack_' = cs
  /\ status' = "crashed"
  /\ UNCHANGED <<output, linear_memory_, global_values_, instance>>

\* What four bytes read from outside the vector may hold.
StrayValues == {0, -1}

\* memcpy from &linear_memory_[effective_addr] when that is outside the
\* vector: undefined behaviour.  The process dies, or the copy reads four
\* bytes of some other object.
load_outside_vector(popped, cs) ==
  \/ Crash(popped, cs)
  \/ \E v \in StrayValues : Continue(Append(popped, I32(v)), cs)

\* memcpy to &linear_memory_[effective_addr] when that is outside the
\* vector: undefined behaviour.  The process dies, or the four bytes land
\* in some other object and the vector keeps its contents.
store_outside_vector(popped, cs) ==
  \/ Crash(popped, cs)
  \/ Continue(popped, cs)

Op_I32Load ==
  /\ AtOpcode(WASM_OP_I32_LOAD)
  /\ LET align == RD_U32(code, buf0)
         offset == RD_U32_wide(code, align.ptr)
         cs == SetPc(call_stack_, offset.ptr)
     IN /\ Record("i32.load", offset.val)
        /\ IF Len(operand_stack_) < 1 THEN Throw(operand_stack_, cs)
           ELSE
             LET addr_val == back(operand_stack_)
                 popped == pop_back(operand_stack_)
             IN IF addr_val.kind # "i32" THEN Throw(popped, cs)
                ELSE IF addr_val.v < 0 THEN Throw(popped, cs)
                ELSE
                  LET addr == u32(addr_val.v)
                      effective_addr == u32_add(addr, offset.val)
                  IN IF out_of_bounds(effective_addr)
                     THEN Throw(popped, cs)
                     ELSE IF ~in_vector(effective_addr)
                     THEN load_outside_vector(popped, cs)
                     ELSE Continue(
                            Append(popped,
                                   I32(i32_load_bytes(linear_memory_,
                                         index_of(effective_addr)))),
                            cs)

Op_I32Store ==
  /\ AtOpcode(WASM_OP_I32_STORE)
  /\ LET align == RD_U32(code, buf0)
         offset == RD_U32_wide(code, align.ptr)
         cs == SetPc(call_stack_, offset.ptr)
     IN /\ Record("i32.store", offset.val)
        /\ IF Len(operand_stack_) < 2 THEN Throw(operand_stack_, cs)
           ELSE
             LET val == back(operand_stack_)
                 addr_val == back(pop_back(operand_stack_))
                 popped == pop_back(pop_back(operand_stack_))
             IN IF addr_val.kind # "i32" THEN Throw(popped, cs)
                ELSE IF addr_val.v < 0 THEN Throw(popped, cs)
                ELSE
                  LET addr == u32(addr_val.v)
                      effective_addr == u32_add(addr, offset.val)
                  IN IF out_of_bounds(effective_addr)
                     THEN Throw(popped, cs)
                     ELSE IF val.kind # "i32" THEN Throw(popped, cs)
                     ELSE IF ~in_vector(effective_addr)
                     THEN store_outside_vector(popped, cs)
                     ELSE /\ operand_stack_' = popped
                          /\ call_stack_' = cs
                          /\ linear_memory_' =
                               memcpy(linear_memory_,
                                      index_of(effective_addr),
                                      i32_store_bytes(val.v))
                          /\ UNCHANGED <<status, output, global_values_,
                                         instance>>

\* ----------------------------------------------------------- call_indirect
\* module_.getSig(type_index): null when the index names no type.
NullSig == [null |-> TRUE]
getSig(type_index) ==
  IF type_index < Len(module_.types) THEN module_.types[type_index + 1]
  ELSE NullSig

\* target->sig
sig_of(f) == [params |-> f.params, results |-> f.results]

\* A comparison of signatures that looks at the results only.
sig_differs_results_only(a, b) == a.results # b.results

\* *(target->sig) != *expected_sig
sig_differs(a, b) == a # b

Op_CallIndirect ==
  /\ AtOpcode(WASM_OP_CALL_INDIRECT)
  /\ Len(call_stack_) < MaxFrames
  /\ LET type_index == RD_U32(code, buf0)
         table_index == RD_U32(code, type_index.ptr)
         cs == SetPc(call_stack_, table_index.ptr)
     IN /\ Record("call_indirect",
                  [type_index |-> type_index.val,
                   table_index |-> table_index.val])
        /\ IF Len(operand_stack_) < 1 THEN Throw(operand_stack_, cs)
           ELSE
             LET table_elem == back(operand_stack_)
                 popped == pop_back(operand_stack_)
                 signed_idx == table_elem.v
                 elem_index == signed_idx
                 imported_tables == module_.num_imported_tables
                 local_table_index == table_index.val - imported_tables
             IN
             IF table_elem.kind # "i32" THEN Throw(popped, cs)
             ELSE IF signed_idx < 0 THEN Throw(popped, cs)
             ELSE IF table_index.val < imported_tables THEN Throw(popped, cs)
             ELSE IF local_table_index >= Len(table_instances_)
             THEN Throw(popped, cs)
             ELSE
               LET table == table_instances_[local_table_index + 1] IN
               IF elem_index >= Len(table) THEN Throw(popped, cs)
               ELSE
                 LET target == table[elem_index + 1]
                     expected_sig == getSig(type_index.val)
                 IN
                 IF target = NULL THEN Throw(popped, cs)
                 ELSE IF expected_sig = NullSig THEN Throw(popped, cs)
                 ELSE IF sig_differs(sig_of(function_instances_[target + 1]),
                                     expected_sig)
                 THEN Throw(popped, cs)
                 ELSE LET added == add_frame(target, popped, cs) IN
                      IF added.ok THEN Continue(added.stack, added.cs)
                      ELSE Throw(added.stack, added.cs)

\* The opcodes that have a case in run_op's switch.
HandledOpcodes ==
  {0, 1, 2, 3, 4, 5, 11, 12, 13, 15, 16, 17, 26, 27, 32, 33, 34, 35, 36,
   40, 54, 65, 66, 67, 68, 69, 70, 72, 106, 107, 160}

\* default: "Opcode error"
Op_Default ==
  /\ status = "running"
  /\ call_stack_ # <<>>
  /\ fr.pc # NULL
  /\ fr.pc < Len(code)
  /\ RD_BYTE(code, fr.pc).val \notin HandledOpcodes
  /\ Record("default", RD_BYTE(code, fr.pc).val)
  /\ Throw(operand_stack_, SetPc(call_stack_, buf0))

\* ------------------------------------------------------------ run's tail
\* invoke returned: print_final_results.  Its throw is outside run's try.
ResultLine(type, value) == [text |-> "result", type |-> type, value |-> value]

print_final_results ==
  /\ status = "running"
  /\ call_stack_ = <<>>
  /\ Record("print_final_results", 0)
  /\ UNCHANGED <<call_stack_, linear_memory_, global_values_, instance>>
  /\ LET result_types == function_instances_[main_ + 1].results
         result_count == Len(result_types)
     IN IF result_count = 0
        THEN /\ status' = "done"
             /\ UNCHANGED <<operand_stack_, output>>
        ELSE IF Len(operand_stack_) # result_count
        THEN /\ status' = "escaped"
             /\ UNCHANGED <<operand_stack_, output>>
        ELSE /\ status' = "done"
             /\ operand_stack_' = <<>>
             /\ output' = output \o [i \in 1..result_count |->
                                       ResultLine(result_types[i],
                                                  operand_stack_[i])]

\* ---------------------------------------------------------------- modules
\* Instruction encodings.
Instrs ==
  { <<WASM_OP_BLOCK, EMPTY_BLOCKTYPE>>, <<WASM_OP_LOOP, EMPTY_BLOCKTYPE>>,
    <<WASM_OP_IF, EMPTY_BLOCKTYPE>>, <<WASM_OP_ELSE>>, <<WASM_OP_END>>,
    <<WASM_OP_BR, 0>>, <<WASM_OP_BR, 1>>,
    <<WASM_OP_BR_IF, 0>>, <<WASM_OP_BR_IF, 1>>,
    <<WASM_OP_RETURN>>,
    <<WASM_OP_I32_CONST, 0>>, <<WASM_OP_I32_CONST, 1>> }

RECURSIVE Flatten(_)
Flatten(ss) == IF ss = <<>> THEN <<>> ELSE Head(ss) \o Flatten(Tail(ss))

\* Every body of at most MaxInstrs instructions, closed by the function's end.
GeneratedBodies ==
  { Flatten(is) \o <<WASM_OP_END>> :
      is \in UNION { [1..n -> Instrs] : n \in 0..MaxInstrs } }

\* Bodies that use the other opcodes.
ExtraBodies ==
  { \* local.get 0; drop; nop; unreachable
    <<32, 0, 26, 1, 0, 11>>,
    \* drop; drop; drop (pops below the frame's entry height)
    <<26, 26, 26, 11>>,
    \* local.get 0; local.set 0; i64.const 1; br_if 0
    <<32, 0, 33, 0, 66, 1, 13, 0, 11>>,
    \* local.get 1 / local.set 1 (out of bounds)
    <<32, 1, 11>>, <<65, 1, 33, 1, 11>>, <<33, 0, 11>>,
    \* i64.const 1; if
    <<66, 1, 4, 64, 11, 11>>,
    \* local.get 0; if; i32.const 0; call 1; return; end; i32.const 8; i32.const 9
    <<32, 0, 4, 64, 65, 0, 16, 1, 15, 11, 65, 8, 65, 9, 11>>,
    \* i32.const 2; i32.const 3; call 1 (unbounded recursion)
    <<65, 2, 65, 3, 16, 1, 11>>,
    \* call 2 (no such function); call 1 with no argument
    <<16, 2, 11>>, <<26, 16, 1, 11>>,
    \* br_table 0 targets, default 0 (no case in run_op)
    <<14, 0, 0, 11>>,
    \* i32.const 1; i32.const 2; block; i32.const 3; br 0; end; return
    <<65, 1, 65, 2, 2, 64, 65, 3, 12, 0, 11, 15, 11>>,
    \* i32.const 3; i32.const 4; block; loop; return; end; end
    <<65, 3, 65, 4, 2, 64, 3, 64, 15, 11, 11, 11>>,
    \* block; i32.const 9; i32.const 1; br_if 0; end; i32.const 3; i32.const 4
    <<2, 64, 65, 9, 65, 1, 13, 0, 11, 65, 3, 65, 4, 11>>,
    \* block; loop; i32.const 1; br_if 1; end; end; i32.const 3; i32.const 4
    <<2, 64, 3, 64, 65, 1, 13, 1, 11, 11, 65, 3, 65, 4, 11>>,
    \* i32.const 1; if; else; end; i32.const 3; i32.const 4
    <<65, 1, 4, 64, 5, 11, 65, 3, 65, 4, 11>>,
    \* i32.const 1; if; i32.const 8; i32.const 9; else; end; i32.const 3
    <<65, 1, 4, 64, 65, 8, 65, 9, 5, 11, 65, 3, 11>>,
    \* i32.const 0; if; i32.const 8; else; i32.const 9; end; i32.const 3
    <<65, 0, 4, 64, 65, 8, 5, 65, 9, 11, 65, 3, 11>>,
    \* if; else; end; i32.const 3; i32.const 4  (the if is the first byte)
    <<4, 64, 5, 11, 65, 3, 65, 4, 11>>,
    \* block; br 0; end; i32.const 3; i32.const 4  (the block is the first byte)
    <<2, 64, 12, 0, 11, 65, 3, 65, 4, 11>>,
    \* nop; block; br 0; end; i32.const 3; i32.const 4
    <<1, 2, 64, 12, 0, 11, 65, 3, 65, 4, 11>>,
    \* nop; block; loop; block; br 2; end; end; end; i32.const 3; i32.const 4
    <<1, 2, 64, 3, 64, 2, 64, 12, 2, 11, 11, 11, 65, 3, 65, 4, 11>>,
    \* nop; loop; i32.const 6; block; br 1; end; end
    <<1, 3, 64, 65, 6, 2, 64, 12, 1, 11, 11, 11>>,
    \* i32.const 3; i32.const 4; block; br 1; end
    <<65, 3, 65, 4, 2, 64, 12, 1, 11, 11>>,
    \* block (blocktype i32); end
    <<2, 127, 11, 11>>,
    \* i32.const 1; i32.const 2; return; loop (blocktype i32); end
    <<65, 1, 65, 2, 15, 3, 127, 11, 11>>,
    \* i32.const 1; i32.const 2; return; i32.const 2; if (blocktype i64); end
    <<65, 1, 65, 2, 15, 65, 2, 4, 126, 11, 11>>,
    \* i32.const 1; i32.const 2; return;
    \* i64.store32 align=0 offset=65; block (blocktype i32); unreachable;
    \* i64.store32 align=0 offset=65; end
    <<65, 1, 65, 2, 15, 62, 0, 65, 2, 127, 0, 62, 0, 65, 11, 11>>,
    \* i32.const 1; i32.const 2; return; i64.store32 align=0 offset=1; end
    <<65, 1, 65, 2, 15, 62, 0, 1, 11, 11>>,
    \* block; i32.const 0; br_table [0] default 1; end; i32.const 3; i32.const 4
    <<2, 64, 65, 0, 14, 1, 0, 1, 11, 65, 3, 65, 4, 11>>,
    \* block; block; i32.const 5; br_table [0] default 1; end; end;
    \* i32.const 3; i32.const 4
    <<2, 64, 2, 64, 65, 5, 14, 1, 0, 1, 11, 11, 65, 3, 65, 4, 11>>,
    \* block; i32.const -1; br_table [0, 0] default 0; end; i32.const 3;
    \* i32.const 4
    <<2, 64, 65, 127, 14, 2, 0, 0, 0, 11, 65, 3, 65, 4, 11>>,
    \* i32.const 1; i64.const 2; i32.const c; select; i32.const 4  (c = 1, 0)
    <<65, 1, 66, 2, 65, 1, 27, 65, 4, 11>>,
    <<65, 1, 66, 2, 65, 0, 27, 65, 4, 11>>,
    \* i32.const 8; i32.const 9; i32.const c; select; i32.const 4  (c = 1, 0)
    <<65, 8, 65, 9, 65, 1, 27, 65, 4, 11>>,
    <<65, 8, 65, 9, 65, 0, 27, 65, 4, 11>>,
    \* i32.const 8; i32.const 9; i64.const 1; select  (condition not i32)
    <<65, 8, 65, 9, 66, 1, 27, 11>>,
    \* i32.const 1; i32.const 1; select; i32.const 4  (val1 is the caller's)
    <<65, 1, 65, 1, 27, 65, 4, 11>>,
    \* i32.const 1; select  (two values on the stack)
    <<65, 1, 27, 11>>,
    \* i32.const 3; block; block; end; end; i32.const 4
    <<65, 3, 2, 64, 2, 64, 11, 11, 65, 4, 11>> }

\* LEB128 encoders, for writing the immediates of the programs below.
RECURSIVE sleb(_)
sleb(n) ==
  IF -64 <= n /\ n < 64 THEN << n % 128 >>
  ELSE << 128 + (n % 128) >> \o sleb(n \div 128)

RECURSIVE uleb(_)
uleb(n) == IF n < 128 THEN <<n>> ELSE << 128 + (n % 128) >> \o uleb(n \div 128)

Func(params, results, groups, body) ==
  [params |-> params, results |-> results, pure_locals |-> groups,
   num_pure_locals |-> Len(pure_local_types(groups)), code_bytes |-> body]

\* main(i32) -> i32:  i32.const 5; local.get 0; call 1; end
MainFunc == Func(<<"i32">>, <<"i32">>, <<>>, <<65, 5, 32, 0, 16, 1, 11>>)

\* The callee (i32) -> (i32, i32) with the body under test.
Callee(body) == Func(<<"i32">>, <<"i32", "i32">>, <<>>, body)

\* A module around `funcs` with main = function 0: one memory of one page
\* with a data segment ending at its last byte, one global, one table of two
\* entries with an element segment ending at its last entry, and one type
\* per function.
BaseModule(funcs) ==
  [funcs |-> funcs,
   main |-> 0,
   types |-> [i \in 1..Len(funcs) |->
                [params |-> funcs[i].params, results |-> funcs[i].results]],
   mems |-> <<1>>, num_imported_mems |-> 0,
   tables |-> <<2>>, num_imported_tables |-> 0,
   elems |-> << [table_offset |-> 1, func_indices |-> <<0>>] >>,
   datas |-> << [mem_offset |-> 65534, bytes |-> <<1, 2>>] >>,
   globals |-> << I32(3) >>]

ControlModules ==
  { BaseModule(<<MainFunc, Callee(body)>>) :
      body \in GeneratedBodies \cup ExtraBodies }

\* ---- memory: main() -> i32 loads, or stores and loads back
I32ConstInstr(n) == <<WASM_OP_I32_CONST>> \o sleb(n)
I32LoadAt(a, offset) ==
  I32ConstInstr(a) \o <<WASM_OP_I32_LOAD, 2>> \o uleb(offset)
I32StoreAt(a, offset, v) ==
  I32ConstInstr(a) \o I32ConstInstr(v) \o <<WASM_OP_I32_STORE, 2>>
  \o uleb(offset)

MemAddrs == {-1, 0, 1, 65529, 65530, 65532, 65533}
MemOffsets == {0, 3}
\* The LEB128 bytes of 0xFFFFFFFC, 0xFFFFFFFF, 0xFFFFFFF0 and 0x80000000.
WideOffsets ==
  { <<252, 255, 255, 255, 15>>, <<255, 255, 255, 255, 15>>,
    <<240, 255, 255, 255, 15>>, <<128, 128, 128, 128, 8>> }
MemValues == {1, -1, -2147483647 - 1, 2147483647, 305419896}

MemoryBodies ==
  { I32LoadAt(a, o) \o <<WASM_OP_END>> : a \in MemAddrs, o \in MemOffsets }
  \cup
  { I32StoreAt(a, o, v) \o I32LoadAt(a, o) \o <<WASM_OP_END>> :
      a \in MemAddrs, o \in MemOffsets, v \in MemValues }
  \cup
  { \* i32.load / i32.store on an empty stack, an i64 address, an i64 value
    <<40, 2, 0, 11>>, <<54, 2, 0, 11>>, <<66, 0, 40, 2, 0, 11>>,
    <<66, 0, 65, 1, 54, 2, 0, 11>>, <<65, 0, 66, 1, 54, 2, 0, 11>>,
    \* i32.const 0; i32.const 7; i32.store; i32.const 1; i32.load
    <<65, 0, 65, 7, 54, 2, 0, 65, 1, 40, 2, 0, 11>> }
  \cup
  { \* i32.load with an offset of 0xFFFFFFFC, 0xFFFFFFFF, 0xFFFFFFF0, 0x80000000
    I32ConstInstr(a) \o <<WASM_OP_I32_LOAD, 2>> \o o \o <<WASM_OP_END>> :
      a \in {0, 1, 4, 65536, 2147483647}, o \in WideOffsets }
  \cup
  { \* the same through i32.store, followed by i32.const 0; i32.load
    I32ConstInstr(a) \o <<65, 7, WASM_OP_I32_STORE, 2>> \o o
    \o <<65, 0, 40, 2, 0, 11>> :
      a \in {0, 1, 4, 65536, 2147483647}, o \in WideOffsets }

MemoryModules ==
  { BaseModule(<< Func(<<>>, <<"i32">>, <<>>, body) >>) :
      body \in MemoryBodies }

\* ---- state that a run leaves behind: main(i32) -> i32
StatefulBodies ==
  { \* global.get 0; local.get 0; global.set 0
    <<35, 0, 32, 0, 36, 0, 11>>,
    \* local.get 0; global.set 0; global.get 0; unreachable
    <<32, 0, 36, 0, 35, 0, 0, 11>>,
    \* global.get 1; global.set 1 (no such global); global.set 0 on no value
    <<35, 1, 11>>, <<32, 0, 36, 1, 11>>, <<36, 0, 11>>,
    \* i32.const 0; i32.load; i32.const 0; local.get 0; i32.store
    <<65, 0, 40, 2, 0, 65, 0, 32, 0, 54, 2, 0, 11>>,
    \* i32.const 65532; i32.load; i32.const 65532; local.get 0; i32.store
    <<65, 252, 255, 3, 40, 2, 0, 65, 252, 255, 3, 32, 0, 54, 2, 0, 11>>,
    \* i32.const 0; local.get 0; i32.store; i32.const 1; i32.const 2; br 1
    <<65, 0, 32, 0, 54, 2, 0, 65, 1, 65, 2, 12, 1, 11>> }

StatefulModules ==
  { BaseModule(<< Func(<<"i32">>, <<"i32">>, <<>>, body) >>) :
      body \in StatefulBodies }

\* ---- call_indirect: main() -> i32 is
\*      i32.const 4; <index>; call_indirect type table
\* over the table [f1, f2, null] with f1 : () -> i32 and f2 : (i32) -> i32.
CallIndirectBodies ==
  { <<65, 4>> \o I32ConstInstr(idx) \o <<WASM_OP_CALL_INDIRECT, t, tab>>
    \o <<WASM_OP_END>> : idx \in {-1, 0, 1, 2, 3}, t \in 0..2, tab \in 0..1 }
  \cup
  { \* call_indirect on an empty stack; with an i64 index
    <<17, 0, 0, 11>>, <<66, 0, 17, 0, 0, 11>>,
    \* i32.const 0; call_indirect 0 0; i32.const 1; call_indirect 1 0 (the
    \* second call takes the result of the first as its argument)
    <<65, 0, 17, 0, 0, 65, 1, 17, 1, 0, 11>> }

CallIndirectFuncs(body) ==
  << Func(<<>>, <<"i32">>, <<>>, body),
     Func(<<>>, <<"i32">>, <<>>, <<65, 9, 11>>),
     Func(<<"i32">>, <<"i32">>, <<>>, <<32, 0, 11>>) >>

CallIndirectTypes ==
  << [params |-> <<>>, results |-> <<"i32">>],
     [params |-> <<"i32">>, results |-> <<"i32">>] >>

CallIndirectModules ==
  { [BaseModule(CallIndirectFuncs(body)) EXCEPT
       !.types = CallIndirectTypes,
       !.tables = <<3>>,
       !.elems = << [table_offset |-> 0, func_indices |-> <<1, 2>>] >>] :
      body \in CallIndirectBodies }
  \cup
  \* the same with table 0 imported: the only instance is that of table 1
  { [BaseModule(CallIndirectFuncs(body)) EXCEPT
       !.types = CallIndirectTypes,
       !.tables = <<3, 3>>,
       !.num_imported_tables = 1,
       !.elems = <<>>] :
      body \in CallIndirectBodies }

\* ---- segments that do and do not fit: main() -> i32 is i32.const 1
SegmentBase == BaseModule(<< Func(<<>>, <<"i32">>, <<>>, <<65, 1, 11>>) >>)

SegmentModules ==
  { \* a data segment one byte past the end of the memory
    [SegmentBase EXCEPT
       !.datas = << [mem_offset |-> 65535, bytes |-> <<1, 2>>] >>],
    \* a segment that fits, then one that starts at the end
    [SegmentBase EXCEPT
       !.datas = << [mem_offset |-> 0, bytes |-> <<9>>],
                    [mem_offset |-> 65536, bytes |-> <<1>>] >>],
    \* an empty segment at the end; two that overlap
    [SegmentBase EXCEPT
       !.datas = << [mem_offset |-> 65536, bytes |-> <<>>] >>],
    [SegmentBase EXCEPT
       !.datas = << [mem_offset |-> 4, bytes |-> <<1, 2, 3>>],
                    [mem_offset |-> 5, bytes |-> <<0, 9>>] >>],
    \* a data segment and no memory
    [SegmentBase EXCEPT
       !.mems = <<>>, !.datas = << [mem_offset |-> 0, bytes |-> <<1>>] >>],
    \* an element segment that runs past the last entry
    [SegmentBase EXCEPT
       !.elems = << [table_offset |-> 1, func_indices |-> <<0, 0>>] >>],
    \* an element segment that starts past the end; an empty one at the end
    [SegmentBase EXCEPT
       !.elems = << [table_offset |-> 3, func_indices |-> <<>>] >>],
    [SegmentBase EXCEPT
       !.elems = << [table_offset |-> 2, func_indices |-> <<>>] >>],
    \* an element segment and table 0 imported; and no table at all
    [SegmentBase EXCEPT !.tables = <<2, 2>>, !.num_imported_tables = 1],
    [SegmentBase EXCEPT !.tables = <<>>] }

\* ---- parameters and locals: main() -> i32 calls
\*      f(i32, i64) -> i32 with locals (2 x i64, 1 x i32)
LocalsModules ==
  { BaseModule(<< Func(<<>>, <<"i32">>, <<>>, body),
                  Func(<<"i32", "i64">>, <<"i32">>,
                       << [count |-> 2, type |-> "i64"],
                          [count |-> 1, type |-> "i32"] >>,
                       <<32, 0, 11>>) >>) :
      body \in { \* i32.const 8; i32.const 1; i64.const 2; call 1
                 <<65, 8, 65, 1, 66, 2, 16, 1, 11>>,
                 \* i32.const 1; call 1 (one argument short)
                 <<65, 1, 16, 1, 11>>,
                 \* call 1 (no argument)
                 <<16, 1, 11>> } }

\* ---- results of main: () -> (i32, i64), () -> (), and no main at all
ResultsModules ==
  { BaseModule(<< Func(<<>>, <<"i32", "i64">>, <<>>, body) >>) :
      body \in { \* i32.const 1; i64.const 2
                 <<65, 1, 66, 2, 11>>,
                 \* i32.const 9; i32.const 1; i64.const 2; return
                 <<65, 9, 65, 1, 66, 2, 15, 11>>,
                 \* i32.const 1 (one result short)
                 <<65, 1, 11>> } }
  \cup
  { BaseModule(<< Func(<<>>, <<>>, <<>>, <<65, 1, 11>>) >>),
    \* main (i32) -> (): block (blocktype i32); end
    BaseModule(<< Func(<<"i32">>, <<>>, <<>>, <<2, 127, 11, 11>>) >>),
    [BaseModule(<< Func(<<>>, <<>>, <<>>, <<65, 1, 11>>) >>) EXCEPT
       !.main = NULL] }

\* ---- the loop accumulator: main(n : i32) -> i32 with locals i and acc
\*   loop
\*     local.get 1; i32.const 1; i32.add; local.set 1       i = i + 1
\*     local.get 2; local.get 1; i32.add; local.set 2       acc = acc + i
\*     local.get 1; local.get 0; i32.lt_s; br_if 0          again while i < n
\*   end
\*   local.get 2
LoopBody ==
  <<3, 64,
    32, 1, 65, 1, 106, 33, 1,
    32, 2, 32, 1, 106, 33, 2,
    32, 1, 32, 0, 72, 13, 0,
    11,
    32, 2,
    11>>

LoopModule ==
  BaseModule(<< Func(<<"i32">>, <<"i32">>,
                     << [count |-> 2, type |-> "i32"] >>, LoopBody) >>)

\* The arguments of run: strings of decimal digits.
RECURSIVE Digits(_)
Digits(n) == IF n < 10 THEN <<n>> ELSE Digits(n \div 10) \o << n % 10 >>

MainArgs == { <<>>, << Digits(7) >> }
LoopArgs == { << Digits(n) >> : n \in 1..MaxN }
\* The generated modules are run with the one argument their main takes;
\* the others also with none (which run rejects or accepts by main's
\* parameter count).
ArgsFor(m) ==
  IF m = LoopModule THEN LoopArgs
  ELSE IF m \in ControlModules THEN { << Digits(7) >> }
  ELSE MainArgs

Modules ==
  ControlModules \cup MemoryModules \cup StatefulModules
  \cup CallIndirectModules \cup SegmentModules \cup LocalsModules
  \cup ResultsModules \cup {LoopModule}

\* The state after the constructor: the layout is cached, main_ is resolved
\* and every vector is empty.
Init ==
  /\ module_ \in Modules
  /\ linear_memory_ = ZeroMemory(0)
  /\ table_instances_ = <<>>
  /\ global_values_ = <<>>
  /\ operand_stack_ = <<>>
  /\ call_stack_ = <<>>
  /\ status = "idle"
  /\ output = <<>>
  /\ runs = <<>>
  /\ last = [op |-> "init", imm |-> 0, operand_stack |-> <<>>,
             call_stack |-> <<>>, linear_memory |-> ZeroMemory(0),
             global_values |-> <<>>]

Next ==
  \/ \E mainargs \in ArgsFor(module_) : Run(mainargs)
  \/ ReachedEndOfBuffer
  \/ NullCursor
  \/ Op_I32Const
  \/ Op_I64Const
  \/ Op_LocalGet
  \/ Op_LocalSet
  \/ Op_Drop
  \/ Op_Select
  \/ Op_Nop
  \/ Op_Unreachable
  \/ Op_Block
  \/ Op_Loop
  \/ Op_If
  \/ Op_Else
  \/ Op_End
  \/ Op_Return
  \/ Op_Br
  \/ Op_BrIf
  \/ Op_Call
  \/ Op_CallIndirect
  \/ Op_I32Add
  \/ Op_I32LtS
  \/ Op_GlobalGet
  \/ Op_GlobalSet
  \/ Op_I32Load
  \/ Op_I32Store
  \/ Op_Default
  \/ print_final_results

Spec == Init /\ [][Next]_vars

\* ============================================================ properties
\* The frame that executed the last step, as it was before the step.
LastFr == back(last.call_stack)
LastCode == module_.funcs[LastFr.func + 1].code_bytes

\* The last step was run_op on opcode `op` and it did not throw.
Stepped(op) == last.op = op /\ status = "running"

\* The cursor of the last step's frame after its opcode and LEB immediate.
LastAfterImm == RD_U32(LastCode, LastFr.pc + 1).ptr

\* The last step was a br_if with a non-zero i32 condition (one the frame
\* itself had pushed) and a label index smaller than the label-stack depth.
BrIfTaken ==
  /\ Stepped("br_if")
  /\ Len(last.operand_stack) > LastFr.stack_height_on_entry
  /\ back(last.operand_stack).kind = "i32"
  /\ back(last.operand_stack).v # 0
  /\ last.imm < Len(LastFr.labels)

\* The last step was a br with a label index smaller than the depth.
BrTaken == Stepped("br") /\ last.imm < Len(LastFr.labels)

\* The label a branch of the last step aimed at.
LastTarget == LastFr.labels[Len(LastFr.labels) - last.imm]

\* C1: a br_if n with a non-zero condition and n smaller than the label-stack
\* depth leaves the label stack, the operand stack and the pc as popping the
\* condition and executing br n from the same state would.
C1_BrIfTakenIsBr ==
  BrIfTaken =>
    LET r == br(last.imm, pop_back(last.operand_stack),
                SetPc(last.call_stack, LastAfterImm))
    IN /\ operand_stack_ = r.stack
       /\ fr.labels = back(r.cs).labels
       /\ fr.pc = back(r.cs).pc

\* C2: after a taken branch (br n, or br_if n with a non-zero condition) the
\* operand-stack depth is the stack_height of the target label.
C2_BranchRestoresHeight ==
  (BrTaken \/ BrIfTaken) => Len(operand_stack_) = LastTarget.stack_height

\* C2 for br alone: the depth is the target's stack_height.
C2_BrRestoresHeight ==
  BrTaken => Len(operand_stack_) = LastTarget.stack_height

\* C4: at every iteration boundary of the dispatcher every frame on the call
\* stack has a non-empty label stack whose bottom label is the implicit
\* function-body label.
C4_ImplicitLabelAtBottom ==
  status = "running" =>
    \A i \in 1..Len(call_stack_) :
      /\ call_stack_[i].labels # <<>>
      /\ call_stack_[i].labels[1].kind = "Implicit"
\* ------------------------------------------- the nesting of a function body
\* The opcode at an instruction address and the address of the next one.
OpcodeAt(bytes, a) == RD_BYTE(bytes, a).val
NextInstr(bytes, a) ==
  skip_immediate(OpcodeAt(bytes, a), bytes, RD_BYTE(bytes, a).ptr)
IsHeader(bytes, a) ==
  OpcodeAt(bytes, a) \in {WASM_OP_BLOCK, WASM_OP_LOOP, WASM_OP_IF}

\* The addresses at which the instructions of the body start.
RECURSIVE InstrStarts(_, _)
InstrStarts(bytes, a) ==
  IF a >= Len(bytes) THEN {}
  ELSE {a} \cup InstrStarts(bytes, NextInstr(bytes, a))

\* From address a inside a construct, `depth` constructs deep: the address of
\* the `end` that closes the construct and of its own `else` (NULL if none).
RECURSIVE Matching(_, _, _, _)
Matching(bytes, a, depth, else_at) ==
  IF a >= Len(bytes) THEN [end |-> NULL, else_at |-> else_at]
  ELSE IF IsHeader(bytes, a)
  THEN Matching(bytes, NextInstr(bytes, a), depth + 1, else_at)
  ELSE IF OpcodeAt(bytes, a) = WASM_OP_END
  THEN IF depth = 1 THEN [end |-> a, else_at |-> else_at]
       ELSE Matching(bytes, NextInstr(bytes, a), depth - 1, else_at)
  ELSE IF OpcodeAt(bytes, a) = WASM_OP_ELSE /\ depth = 1
  THEN Matching(bytes, NextInstr(bytes, a), depth, a)
  ELSE Matching(bytes, NextInstr(bytes, a), depth, else_at)

\* The matching `end` and the own `else` of the construct whose header is h.
MatchOf(bytes, h) == Matching(bytes, NextInstr(bytes, h), 1, NULL)

\* The headers of the constructs open at instruction address a, outermost
\* first (a header is open from the instruction after it up to its `end`).
RECURSIVE OpenAt(_, _, _, _)
OpenAt(bytes, p, a, open) ==
  IF p >= a \/ p >= Len(bytes) THEN open
  ELSE IF IsHeader(bytes, p)
  THEN OpenAt(bytes, NextInstr(bytes, p), a, Append(open, p))
  ELSE IF OpcodeAt(bytes, p) = WASM_OP_END /\ open # <<>>
  THEN OpenAt(bytes, NextInstr(bytes, p), a, pop_back(open))
  ELSE OpenAt(bytes, NextInstr(bytes, p), a, open)

Enclosing(bytes, a) == OpenAt(bytes, 0, a, <<>>)

\* What C3 says of the header h of a frame's function.
HeaderIndexed(bytes, ctrl_map, h) ==
  /\ h \in DOMAIN ctrl_map
  /\ ctrl_map[h].end = MatchOf(bytes, h).end
  /\ ctrl_map[h].else_pc # NULL <=>
       (OpcodeAt(bytes, h) = WASM_OP_IF /\ MatchOf(bytes, h).else_at # NULL)
  /\ ctrl_map[h].else_pc # NULL =>
       ctrl_map[h].else_pc = MatchOf(bytes, h).else_at + 1

HeadersOf(bytes) == { h \in InstrStarts(bytes, 0) : IsHeader(bytes, h) }

\* C3: after pre_indexing of a function body (every frame holds the ctrl_map
\* pre_indexing returned for its function) every block/loop/if header,
\* the one at the first byte of the code included, maps to an entry whose end
\* is the header's own matching `end` and whose else_pc is non-null exactly
\* for an `if` with an `else`, and then is the address just past the `else`.
C3_CtrlMapComplete ==
  \A i \in 1..Len(call_stack_) :
    LET bytes == module_.funcs[call_stack_[i].func + 1].code_bytes IN
    \A h \in HeadersOf(bytes) :
      HeaderIndexed(bytes, call_stack_[i].ctrl_map, h)

\* C3 for the headers that are not the first byte of the code.
C3_CtrlMapCompletePastFirstByte ==
  \A i \in 1..Len(call_stack_) :
    LET bytes == module_.funcs[call_stack_[i].func + 1].code_bytes IN
    \A h \in HeadersOf(bytes) \ {0} :
      HeaderIndexed(bytes, call_stack_[i].ctrl_map, h)
\* ----------------------------------------------------------------- returns
\* The last step made the frame LastFr return: a `return`, or an `end` that
\* closed the last label of the frame, with enough values for the results.
Returned ==
  /\ last.op \in {"return", "end"}
  /\ status = "running"
  /\ Len(call_stack_) = Len(last.call_stack) - 1

LastResultCount == Len(module_.funcs[LastFr.func + 1].results)

\* C5: when a frame returns, through the function-body `end` or through
\* `return` at any label depth, the frame is popped, the operand-stack depth
\* is the frame's stack_height_on_entry plus the number of results, and the
\* top values are the callee's top values in their original order.
C5_ReturnDeliversResults ==
  Returned =>
    /\ call_stack_ = pop_back(last.call_stack)
    /\ Len(operand_stack_) = LastFr.stack_height_on_entry + LastResultCount
    /\ \A k \in 1..LastResultCount :
         operand_stack_[Len(operand_stack_) - LastResultCount + k] =
           last.operand_stack[Len(last.operand_stack) - LastResultCount + k]

\* A `return` two constructs deep in a called function handed two different
\* results to a caller that keeps a value of its own below them.
C5_Witness ==
  /\ Returned
  /\ last.op = "return"
  /\ Len(LastFr.labels) >= 3
  /\ LastFr.stack_height_on_entry > 0
  /\ LastResultCount = 2
  /\ operand_stack_[Len(operand_stack_)] # operand_stack_[Len(operand_stack_) - 1]

\* ------------------------------------------------------------ if and else
\* The frame of the last step held no fewer values than at its entry: it had
\* not consumed a value of its caller.
OwnValues(n) == Len(last.operand_stack) >= LastFr.stack_height_on_entry + n

\* The last step was an `if` that pushed its label, on a condition the frame
\* itself had pushed.
IfEntered ==
  /\ Stepped("if")
  /\ OwnValues(1)
  /\ Len(fr.labels) = Len(LastFr.labels) + 1

\* The last step was an `end` that closed an If label of the frame (and not
\* the frame itself).
IfClosed ==
  /\ Stepped("end")
  /\ Len(call_stack_) = Len(last.call_stack)
  /\ OwnValues(0)
  /\ back(LastFr.labels).kind = "If"

\* C6: the label pushed by `if` records the operand-stack depth measured
\* after the condition has been popped, and the `end` that closes the if
\* construct leaves no extra value on the operand stack.
C6_IfLabelHeightAfterCondition ==
  /\ IfEntered => back(fr.labels).stack_height = Len(last.operand_stack) - 1
  /\ IfClosed => Len(operand_stack_) <= Len(last.operand_stack)

\* The last step was an `else` reached with an If label on top.
ElseStepped ==
  /\ Stepped("else")
  /\ OwnValues(0)
  /\ back(LastFr.labels).kind = "If"

\* C7: the `else` step pops the if label, sets the pc to that label's end
\* target and restores the operand-stack depth to the label's stack_height.
C7_ElseClosesIf ==
  ElseStepped =>
    /\ fr.labels = pop_back(LastFr.labels)
    /\ fr.pc = back(LastFr.labels).pc_target
    /\ Len(operand_stack_) = back(LastFr.labels).stack_height

\* C7 without the operand stack: the label is popped and the pc is set.
C7_ElsePopsAndJumps ==
  ElseStepped =>
    /\ fr.labels = pop_back(LastFr.labels)
    /\ fr.pc = back(LastFr.labels).pc_target

\* ------------------------------------------------ br to the function body
\* The last step was a br whose target is the implicit function-body label,
\* in a frame that had pushed values for all its results.
BrToFunctionBody ==
  /\ last.op = "br"
  /\ last.imm < Len(LastFr.labels)
  /\ LastTarget.kind = "Implicit"
  /\ OwnValues(LastResultCount)

\* C8: a br whose target is the implicit function-body label has the effect
\* of `return`: the frame is popped and its results are delivered to the
\* caller on the operand stack.
C8_BrToFunctionBodyReturns ==
  BrToFunctionBody =>
    LET ret == function_return(LastFr, last.operand_stack) IN
    /\ status = "running"
    /\ Len(call_stack_) = Len(last.call_stack) - 1
    /\ operand_stack_ = ret.stack
\* ------------------------------------------------ br in blocks and loops
\* The body is a nesting of blocks and loops: no if, else or br_if in it.
BlocksAndLoopsOnly(bytes) ==
  \A a \in InstrStarts(bytes, 0) :
    OpcodeAt(bytes, a) \notin {WASM_OP_IF, WASM_OP_ELSE, WASM_OP_BR_IF}

\* The constructs open around the instruction of the last step.
LastEnclosing == Enclosing(LastCode, LastFr.pc)

\* The last step was a `br n` in such a body whose target is its n-th
\* enclosing block or loop.
BrInNesting ==
  /\ Stepped("br")
  /\ BlocksAndLoopsOnly(LastCode)
  /\ last.imm < Len(LastEnclosing)

\* The header of the construct the br of the last step aims at, and the
\* label-stack depth with that construct's label on top.
LastTargetHeader == LastEnclosing[Len(LastEnclosing) - last.imm]
LastTargetDepth == Len(LastEnclosing) - last.imm + 1

\* Execution continues after the `end` at address e with `depth` labels left:
\* the pc is past that `end`, or it is at that `end` with the target label
\* alone on top of those, so that the dispatcher's next step, the `end`,
\* removes the target label and goes on with the instruction after it.
ContinuesAfter(e, depth) ==
  \/ fr.pc = e + 1 /\ Len(fr.labels) = depth
  \/ /\ fr.pc = e
     /\ Len(fr.labels) = depth + 1
     /\ back(fr.labels).kind = "Block"

BrLands(h) ==
  IF OpcodeAt(LastCode, h) = WASM_OP_LOOP
  THEN /\ fr.pc = h + 2
       /\ back(fr.labels).kind = "Loop"
       /\ Len(fr.labels) = LastTargetDepth
  ELSE ContinuesAfter(MatchOf(LastCode, h).end, LastTargetDepth - 1)

\* C9: in any nesting of blocks and loops a br n whose target is a loop goes
\* on at the first instruction of that loop's body with the loop's label the
\* innermost one, and a br n whose target is a block goes on at the
\* instruction after that block's matching `end` with the target label and
\* the labels nested in it removed.
C9_BrLandsOnTarget == BrInNesting => BrLands(LastTargetHeader)

\* C9 for the targets whose header is not the first byte of the code.
C9_BrLandsOnTargetPastFirstByte ==
  (BrInNesting /\ LastTargetHeader # 0) => BrLands(LastTargetHeader)

\* ------------------------------------------------------------------- traps
\* C10: every trap raised while main or a function it calls is executing
\* makes run print exactly the line `!trap`, and no result line, and return.
\* (The lines the i-th call of run has printed so far.)
RunOutput(i) ==
  SubSeq(output, runs[i].start + 1,
         IF i < Len(runs) THEN runs[i + 1].start ELSE Len(output))

C10_TrapPrintsTrapLine ==
  runs # <<>> =>
    LET out == RunOutput(Len(runs)) IN
    /\ status = "trapped" => out = <<TrapLine>>
    /\ status # "trapped" => \A i \in 1..Len(out) : out[i] # TrapLine

\* A trap raised by an instruction of a called function.
C10_Witness ==
  /\ status = "trapped"
  /\ Len(call_stack_) >= 2
  /\ last.op = "unreachable"
\* ---------------------------------------------------------------- segments
\* The size of the linear memory and of local table 0 that a run starts with.
InitialMemorySize == initial_linear_memory_pages_ * WASM_PAGE_SIZE

DataSegmentOverflows ==
  \E i \in 1..Len(module_.datas) :
    module_.datas[i].mem_offset + Len(module_.datas[i].bytes)
      > InitialMemorySize

ElementSegmentOverflows ==
  /\ Len(module_.tables) > 0
  /\ module_.num_imported_tables = 0
  /\ \E i \in 1..Len(module_.elems) :
       module_.elems[i].table_offset + Len(module_.elems[i].func_indices)
         > module_.tables[1]

\* The last step was a call of run on a module that has a main.
RunCalled == last.op = "run" /\ main_ # NULL

\* C11: when a data segment's offset plus length exceeds the linear-memory
\* size, or an element segment would write past the end of its table, run
\* traps like on any other trap: it prints the line `!trap` and returns.
C11_SegmentOverflowTraps ==
  (RunCalled /\ (DataSegmentOverflows \/ ElementSegmentOverflows)) =>
    /\ status = "trapped"
    /\ RunOutput(Len(runs)) = <<TrapLine>>

\* What the code does instead: the exception leaves run and nothing is
\* printed.
C11_SegmentOverflowEscapes ==
  (RunCalled /\ (DataSegmentOverflows \/ ElementSegmentOverflows)) =>
    /\ status = "escaped"
    /\ RunOutput(Len(runs)) = <<>>

\* Segments that end exactly at the end of the memory and of the table fit.
C11_SegmentsThatFit ==
  (RunCalled /\ ~DataSegmentOverflows /\ ~ElementSegmentOverflows
     /\ ~(Len(module_.tables) > 0 /\ module_.num_imported_tables > 0
          /\ module_.elems # <<>>))
    => status # "escaped"
\* --------------------------------------------------------------- invocation
\* The last step created a frame: a call or call_indirect that did not throw,
\* or run up to the add_frame of main.
Invoked ==
  \/ /\ last.op \in {"call", "call_indirect"}
     /\ status = "running"
     /\ Len(call_stack_) = Len(last.call_stack) + 1
  \/ /\ last.op = "run"
     /\ status = "running"

\* The decimal value of an argument string.
RECURSIVE DecimalValue(_)
DecimalValue(s) ==
  IF Len(s) = 1 THEN s[1]
  ELSE 10 * DecimalValue(SubSeq(s, 1, Len(s) - 1)) + s[Len(s)]

\* The operand stack the invoked function found: the caller's stack (without
\* the table index for call_indirect), or the arguments of run as values of
\* main's parameter types.
ArgStack ==
  CASE last.op = "call" -> last.operand_stack
    [] last.op = "call_indirect" -> pop_back(last.operand_stack)
    [] last.op = "run" ->
         [i \in 1..Len(last.imm) |->
            [kind |-> function_instances_[main_ + 1].params[i],
             v |-> DecimalValue(last.imm[i])]]

\* The declared kind of the k-th local after the parameters.
RECURSIVE DeclaredKind(_, _)
DeclaredKind(groups, k) ==
  IF k <= Head(groups).count THEN Head(groups).type
  ELSE DeclaredKind(Tail(groups), k - Head(groups).count)

\* C12: when a function with P parameters is invoked on an operand stack of
\* at least P values, locals[j] for j < P is the j-th argument in the order
\* the caller pushed them, every following local is the zero of its declared
\* kind, exactly P values leave the operand stack and stack_height_on_entry
\* is the depth after that; a call with fewer than P values traps (and pushes
\* no frame).
C12_ParametersBecomeLocals ==
  /\ Invoked =>
       LET f == function_instances_[fr.func + 1]
           P == Len(f.params)
           before == ArgStack
       IN /\ Len(before) >= P
          /\ Len(fr.locals) = P + f.num_pure_locals
          /\ \A j \in 1..P : fr.locals[j] = before[Len(before) - P + j]
          /\ \A k \in 1..f.num_pure_locals :
               fr.locals[P + k] =
                 [kind |-> DeclaredKind(f.pure_locals, k), v |-> 0]
          /\ operand_stack_ = SubSeq(before, 1, Len(before) - P)
          /\ fr.stack_height_on_entry = Len(before) - P
  /\ (/\ last.op = "call"
      /\ last.imm < Len(function_instances_)
      /\ Len(last.operand_stack)
           < Len(function_instances_[last.imm + 1].params))
       => /\ status = "trapped"
          /\ call_stack_ = SetPc(last.call_stack, LastAfterImm)
          /\ operand_stack_ = last.operand_stack

\* A call of f(i32, i64) with locals (i64, i64, i32) on a stack of three
\* values, the arguments 1 and 2 on top.
C12_Witness ==
  /\ Invoked
  /\ last.op = "call"
  /\ Len(function_instances_[fr.func + 1].params) = 2
  /\ Len(last.operand_stack) = 3
  /\ fr.locals = <<I32(1), I64(2), I64(0), I64(0), I32(0)>>
  /\ operand_stack_ = <<I32(8)>>

\* A call one argument short.
C12_WitnessShort ==
  /\ last.op = "call"
  /\ last.imm < Len(function_instances_)
  /\ Len(function_instances_[last.imm + 1].params) = 2
  /\ Len(last.operand_stack) = 1
  /\ status = "trapped"
\* -------------------------------------------------------------------- call
\* The frame's cursor is just past the immediates of a call or call_indirect
\* instruction of its function.
PastCall(frame) ==
  LET bytes == function_instances_[frame.func + 1].code_bytes IN
  \E p \in InstrStarts(bytes, 0) :
    \/ /\ OpcodeAt(bytes, p) = WASM_OP_CALL
       /\ RD_U32(bytes, p + 1).ptr = frame.pc
    \/ /\ OpcodeAt(bytes, p) = WASM_OP_CALL_INDIRECT
       /\ RD_U32(bytes, RD_U32(bytes, p + 1).ptr).ptr = frame.pc

\* The last step was `call f`; f names a function or not.
CallInRange == last.op = "call" /\ last.imm < Len(function_instances_)
CallOutOfRange == last.op = "call" /\ last.imm >= Len(function_instances_)

\* C13: `call f` with f in range pushes exactly one new frame, that of
\* function_instances[f], and leaves the caller's frame with its cursor just
\* past the call's immediate and its locals and labels as they were (when
\* add_frame throws instead, the run traps and no frame is pushed); no step
\* of the callee touches a frame below the top one; and when the callee's
\* frame returns the caller's frame is the top frame again, unchanged: it
\* resumes just past the call.  `call f` with f out of range traps and pushes
\* no frame.
C13_CallPushesOneFrameAndReturns ==
  /\ CallInRange =>
       \/ /\ status = "running"
          /\ Len(call_stack_) = Len(last.call_stack) + 1
          /\ fr.func = last.imm
          /\ pop_back(call_stack_) = SetPc(last.call_stack, LastAfterImm)
       \/ /\ status = "trapped"
          /\ call_stack_ = SetPc(last.call_stack, LastAfterImm)
  /\ CallOutOfRange =>
       /\ status = "trapped"
       /\ call_stack_ = SetPc(last.call_stack, LastAfterImm)
  /\ last.op \notin {"init", "run"} =>
       \A i \in 1..(Len(last.call_stack) - 1) :
         i <= Len(call_stack_) => call_stack_[i] = last.call_stack[i]
  /\ \A i \in 1..(Len(call_stack_) - 1) : PastCall(call_stack_[i])
  /\ (Returned /\ call_stack_ # <<>>) =>
       /\ call_stack_ = pop_back(last.call_stack)
       /\ PastCall(fr)

\* A callee returns to a caller that is inside an `if` and has a local.
C13_Witness ==
  /\ Returned
  /\ call_stack_ # <<>>
  /\ Len(fr.labels) >= 2
  /\ Len(fr.locals) >= 1
  /\ fr.pc # NULL
  /\ fr.pc < Len(code)

\* `call 2` in a module of two functions.
C13_WitnessOutOfRange ==
  /\ CallOutOfRange
  /\ status = "trapped"
\* ------------------------------------------------------------ call_indirect
\* The last step was call_indirect type, table on a stack with an index.
CallIndirectStepped ==
  /\ last.op = "call_indirect"
  /\ last.operand_stack # <<>>

\* The popped index is a non-negative i32 within the bounds of a table that
\* is defined in the module and not imported, the entry is not null and the
\* signature of the function it names is module.types[type].
CallIndirectTargetOk ==
  LET index == back(last.operand_stack)
      local_table == last.imm.table_index - module_.num_imported_tables
  IN /\ index.kind = "i32"
     /\ index.v >= 0
     /\ local_table >= 0
     /\ local_table < Len(table_instances_)
     /\ index.v < Len(table_instances_[local_table + 1])
     /\ table_instances_[local_table + 1][index.v + 1] # NULL
     /\ last.imm.type_index < Len(module_.types)
     /\ LET target ==
              function_instances_[table_instances_[local_table + 1][index.v + 1] + 1]
            type == module_.types[last.imm.type_index + 1]
        IN target.params = type.params /\ target.results = type.results

\* C14: call_indirect pushes a frame only when the target is as above; in
\* every other case it traps and pushes no frame.
C14_CallIndirectChecksTarget ==
  /\ CallIndirectStepped =>
       /\ Len(call_stack_) > Len(last.call_stack) => CallIndirectTargetOk
       /\ ~CallIndirectTargetOk =>
            /\ status = "trapped"
            /\ call_stack_ = SetPc(last.call_stack,
                                   RD_U32(LastCode, LastAfterImm).ptr)
  /\ (last.op = "call_indirect" /\ last.operand_stack = <<>>) =>
       /\ status = "trapped"
       /\ Len(call_stack_) = Len(last.call_stack)

\* call_indirect pushed the frame of f2 : (i32) -> i32 found at index 1.
C14_Witness ==
  /\ CallIndirectStepped
  /\ CallIndirectTargetOk
  /\ Len(call_stack_) = Len(last.call_stack) + 1
  /\ fr.func = 2
  /\ fr.locals = <<I32(4)>>

\* Traps of call_indirect: a null entry, and a signature that differs.
C14_WitnessNull ==
  /\ CallIndirectStepped
  /\ back(last.operand_stack) = I32(2)
  /\ last.imm.table_index = 0
  /\ module_.num_imported_tables = 0
  /\ status = "trapped"

C14_WitnessSignature ==
  /\ CallIndirectStepped
  /\ back(last.operand_stack) = I32(0)
  /\ last.imm = [type_index |-> 1, table_index |-> 0]
  /\ module_.num_imported_tables = 0
  /\ status = "trapped"
\* ------------------------------------------------------------ memory access
\* The last step was an i32.load or i32.store that found its operands: an
\* i32 address (under an i32 value for the store).
AnyMemoryAccess ==
  \/ /\ last.op = "i32.load"
     /\ Len(last.operand_stack) >= 1
     /\ back(last.operand_stack).kind = "i32"
  \/ /\ last.op = "i32.store"
     /\ Len(last.operand_stack) >= 2
     /\ back(last.operand_stack).kind = "i32"
     /\ back(pop_back(last.operand_stack)).kind = "i32"

\* Such an access with an offset below 2^30: with an address below 2^30 too,
\* addr + offset + 4 is computed without wrap.
MemoryAccess == AnyMemoryAccess /\ last.imm.hi < 16384

\* The offset immediate of that access.
AccessOffset == last.imm.hi * 65536 + last.imm.lo

\* The address operand and the effective address of that access.
AccessAddr ==
  IF last.op = "i32.load" THEN back(last.operand_stack).v
  ELSE back(pop_back(last.operand_stack)).v

EffectiveAddr == AccessAddr + AccessOffset

\* The access went through: the cursor is past both immediates, the operands
\* are gone and the load has pushed one i32.
AccessSucceeded ==
  /\ status = "running"
  /\ call_stack_ =
       SetPc(last.call_stack, RD_U32_wide(LastCode, LastAfterImm).ptr)
  /\ IF last.op = "i32.load"
     THEN /\ Len(operand_stack_) = Len(last.operand_stack)
          /\ back(operand_stack_).kind = "i32"
          /\ pop_back(operand_stack_) = pop_back(last.operand_stack)
     ELSE operand_stack_ = pop_back(pop_back(last.operand_stack))

\* C15: an i32.load or i32.store with a non-negative address succeeds when
\* effective_addr + 4 is the linear-memory size and traps when it is the
\* size plus one; with a negative address it traps.
C15_AccessBoundary ==
  MemoryAccess =>
    /\ (AccessAddr >= 0 /\ EffectiveAddr + 4 = last.linear_memory.size)
         => AccessSucceeded
    /\ (AccessAddr >= 0 /\ EffectiveAddr + 4 = last.linear_memory.size + 1)
         => status = "trapped"
    /\ AccessAddr < 0 => status = "trapped"

\* A store of the last four bytes through a non-zero offset.
C15_Witness ==
  /\ MemoryAccess
  /\ last.op = "i32.store"
  /\ AccessOffset = 3
  /\ EffectiveAddr + 4 = last.linear_memory.size
  /\ AccessSucceeded

\* A load one byte too far, and one at a negative address.
C15_WitnessTrap ==
  /\ MemoryAccess
  /\ last.op = "i32.load"
  /\ AccessAddr >= 0
  /\ EffectiveAddr + 4 = last.linear_memory.size + 1
  /\ status = "trapped"

C15_WitnessNegative ==
  /\ MemoryAccess
  /\ AccessAddr < 0
  /\ status = "trapped"
\* --------------------------------------------------------------- round trip
\* The last step was an i32.store that went through.
Stored ==
  /\ MemoryAccess
  /\ last.op = "i32.store"
  /\ status = "running"

StoredValue == back(last.operand_stack).v

\* The little-endian value of the four bytes of mem at a, as an int32.
LittleEndianAt(mem, a) ==
  LET byte(k) == IF a + k \in DOMAIN mem.data THEN mem.data[a + k] ELSE 0
      unsigned_low == byte(0) + 256 * byte(1) + 65536 * byte(2)
  IN IF byte(3) < 128 THEN unsigned_low + 16777216 * byte(3)
     ELSE unsigned_low + 16777216 * (byte(3) - 128) - 2147483647 - 1

\* main is the only function and its program is: store v at a + o, load
\* from a + o.
StoreThenLoad(a, o, v) ==
  /\ main_ # NULL
  /\ Len(function_instances_) = 1
  /\ function_instances_[main_ + 1].code_bytes
       = I32StoreAt(a, o, v) \o I32LoadAt(a, o) \o <<WASM_OP_END>>

\* C16: for every i32 value v and every in-bounds address a, aligned or not,
\* i32.store of v at a followed by i32.load at a pushes v, and the store
\* changes no byte of the linear memory outside [a, a + 4).
C16_StoreLoadRoundTrip ==
  /\ Stored =>
       /\ LittleEndianAt(linear_memory_, EffectiveAddr) = StoredValue
       /\ linear_memory_.size = last.linear_memory.size
       /\ \A b \in (DOMAIN linear_memory_.data)
                     \cup (DOMAIN last.linear_memory.data) :
            (b < EffectiveAddr \/ b >= EffectiveAddr + 4) =>
              /\ b \in DOMAIN linear_memory_.data
              /\ b \in DOMAIN last.linear_memory.data
              /\ linear_memory_.data[b] = last.linear_memory.data[b]
  /\ \A a \in MemAddrs, o \in MemOffsets, v \in MemValues :
       (/\ StoreThenLoad(a, o, v)
        /\ a >= 0
        /\ a + o + 4 <= InitialMemorySize) =>
         /\ (last.op = "i32.load" /\ status = "running")
              => back(operand_stack_) = I32(v)
         /\ status \notin {"trapped", "escaped", "crashed"}
         /\ status = "done" => RunOutput(Len(runs)) = <<ResultLine("i32", I32(v))>>

\* The value 0x12345678 stored at the unaligned address 1 has been loaded
\* back.
C16_Witness ==
  /\ StoreThenLoad(1, 0, 305419896)
  /\ last.op = "i32.load"
  /\ status = "running"
  /\ back(operand_stack_) = I32(305419896)
  /\ linear_memory_.data[1] = 120
  /\ linear_memory_.data[4] = 18

\* A negative value stored over the data segment at the end of the memory.
C16_WitnessNegative ==
  /\ StoreThenLoad(65529, 3, -1)
  /\ status = "done"
  /\ RunOutput(Len(runs)) = <<ResultLine("i32", I32(-1))>>
\* ------------------------------------------------------- state across runs
\* The data segments that cover address a, and the byte the last of them
\* puts there (zero when none does).
SegmentsOver(a) ==
  { i \in 1..Len(module_.datas) :
      /\ module_.datas[i].mem_offset <= a
      /\ a < module_.datas[i].mem_offset + Len(module_.datas[i].bytes) }

SetMax(S) == CHOOSE x \in S : \A y \in S : y <= x

ImageByte(a) ==
  IF SegmentsOver(a) = {} THEN 0
  ELSE LET seg == module_.datas[SetMax(SegmentsOver(a))]
       IN seg.bytes[a - seg.mem_offset + 1]

SegmentAddresses ==
  UNION { module_.datas[i].mem_offset
            .. (module_.datas[i].mem_offset + Len(module_.datas[i].bytes) - 1) :
          i \in 1..Len(module_.datas) }

\* The linear memory is zero bytes overlaid with the data segments.
MemoryIsImage ==
  /\ linear_memory_.size = InitialMemorySize
  /\ \A a \in DOMAIN linear_memory_.data :
       a \in SegmentAddresses /\ linear_memory_.data[a] # 0
  /\ \A a \in SegmentAddresses :
       ImageByte(a) = IF a \in DOMAIN linear_memory_.data
                      THEN linear_memory_.data[a] ELSE 0

\* The element segments that cover entry e of table 0, and the entry the
\* last of them puts there (null when none does).
ElementsOver(e) ==
  { i \in 1..Len(module_.elems) :
      /\ module_.elems[i].table_offset <= e
      /\ e < module_.elems[i].table_offset
               + Len(module_.elems[i].func_indices) }

ImageEntry(t, e) ==
  IF t # 1 \/ ElementsOver(e) = {} THEN NULL
  ELSE LET elem == module_.elems[SetMax(ElementsOver(e))]
       IN elem.func_indices[e - elem.table_offset + 1]

\* The tables are those the module defines itself, null entries overlaid
\* with the element segments.
TablesAreImage ==
  /\ Len(table_instances_) = Len(local_table_initial_sizes_)
  /\ \A t \in 1..Len(table_instances_) :
       /\ Len(table_instances_[t]) = local_table_initial_sizes_[t]
       /\ \A e \in 1..Len(table_instances_[t]) :
            table_instances_[t][e] = ImageEntry(t, e - 1)

\* The last step was a call of run that got as far as pushing main's frame.
MainFramePushed == last.op = "run" /\ status = "running"

\* The i-th call of run has ended: normally, with a result or a trap, or
\* rejected for its argument count.
Finished(i) == i < Len(runs) \/ status \in {"done", "trapped", "rejected"}

\* C17: when main's frame is pushed, in the first call of run or in one that
\* follows a run that ended normally or in a trap, the linear memory is zero
\* bytes overlaid with the data segments, the globals have their initial
\* values, the tables are null entries overlaid with the element segments,
\* main's frame is the only frame, and the operand stack held exactly the
\* parsed arguments (they are main's locals now and the stack is empty); and
\* two runs with the same arguments print the same lines.
C17_EveryRunStartsFresh ==
  /\ MainFramePushed =>
       /\ MemoryIsImage
       /\ global_values_ = module_.globals
       /\ TablesAreImage
       /\ Len(call_stack_) = 1
       /\ fr.func = main_
       /\ fr.pc = 0
       /\ Len(fr.labels) = 1
       /\ operand_stack_ = <<>>
       /\ fr.stack_height_on_entry = 0
       /\ SubSeq(fr.locals, 1, Len(last.imm)) = ArgStack
  /\ \A i, j \in 1..Len(runs) :
       (i < j /\ runs[i].args = runs[j].args /\ Finished(j)) =>
         RunOutput(i) = RunOutput(j)

\* No i32.load or i32.store of the module has an offset of 2^30 or more: with
\* such offsets effective_addr + 4 can wrap and the access leave the vector.
NarrowOffsets ==
  \A f \in 1..Len(function_instances_) :
    LET bytes == function_instances_[f].code_bytes IN
    \A a \in InstrStarts(bytes, 0) :
      OpcodeAt(bytes, a) \in {WASM_OP_I32_LOAD, WASM_OP_I32_STORE} =>
        RD_U32_wide(bytes, RD_U32(bytes, a + 1).ptr).val.hi < 16384

\* What the code guarantees: every run starts fresh, and two runs with the
\* same arguments print the same lines unless the module has a memory access
\* that can leave the vector.
C17_EveryRunStartsFreshAndNarrowRunsRepeat ==
  /\ MainFramePushed =>
       /\ MemoryIsImage
       /\ global_values_ = module_.globals
       /\ TablesAreImage
       /\ Len(call_stack_) = 1
       /\ fr.func = main_
       /\ fr.pc = 0
       /\ Len(fr.labels) = 1
       /\ operand_stack_ = <<>>
       /\ fr.stack_height_on_entry = 0
       /\ SubSeq(fr.locals, 1, Len(last.imm)) = ArgStack
  /\ NarrowOffsets =>
       \A i, j \in 1..Len(runs) :
         (i < j /\ runs[i].args = runs[j].args /\ Finished(j)) =>
           RunOutput(i) = RunOutput(j)

\* Two finished runs of `i32.const 0; i32.load offset=0xFFFFFFFF` printed
\* different lines.
C17_WitnessStrayRead ==
  /\ Len(runs) = 2
  /\ status = "done"
  /\ ~NarrowOffsets
  /\ runs[1].args = runs[2].args
  /\ RunOutput(1) # RunOutput(2)

\* The second run starts after a run that trapped with a frame on the call
\* stack, a value on the operand stack and a global it had set.
C17_Witness ==
  /\ MainFramePushed
  /\ Len(runs) = 2
  /\ last.call_stack # <<>>
  /\ last.operand_stack # <<>>
  /\ last.global_values # module_.globals

\* The second run starts after a run that ended normally and had stored
\* over a data segment.
C17_WitnessMemory ==
  /\ MainFramePushed
  /\ Len(runs) = 2
  /\ last.linear_memory.size = linear_memory_.size
  /\ 65534 \in DOMAIN last.linear_memory.data
  /\ last.linear_memory.data[65534] # 1
  /\ linear_memory_.data[65534] = 1

\* Two finished runs with the same argument that printed a result read from
\* a global the first run had set.
C17_WitnessSameOutput ==
  /\ Len(runs) = 2
  /\ status = "done"
  /\ runs[1].args = runs[2].args
  /\ RunOutput(2) = <<ResultLine("i32", I32(3))>>
  /\ global_values_ = <<I32(7)>>
\* ------------------------------------------------------- results of main
\* invoke(main_) has returned: the call stack is empty and run goes on to
\* print_final_results.
InvokeReturned == status = "running" /\ call_stack_ = <<>>

MainResults == function_instances_[main_ + 1].results

C18_WitnessDiscarded ==
  /\ InvokeReturned
  /\ last.op = "return"
  /\ Len(last.operand_stack) = 3
  /\ operand_stack_ = <<I32(1), I64(2)>>

\* main declares no result: nothing is printed.
C18_WitnessNoResult ==
  /\ last.op = "print_final_results"
  /\ status = "done"
  /\ MainResults = <<>>
  /\ RunOutput(Len(runs)) = <<>>
\* ------------------------------------------------------- malformed bodies
\* The narrow i64 loads (i64.load8_s .. i64.load32_u) and stores (i64.store8
\* .. i64.store32): each carries the align and offset immediates.
I64NarrowAccess == (48..53) \cup (60..62)

\* The address of the instruction after the one at a, when the body is
\* decoded with every load and store carrying its two immediates.
WasmNext(bytes, a) ==
  IF OpcodeAt(bytes, a) \in I64NarrowAccess
  THEN RD_U32(bytes, RD_U32(bytes, a + 1).ptr).ptr
  ELSE NextInstr(bytes, a)

RECURSIVE WasmStarts(_, _)
WasmStarts(bytes, a) ==
  IF a >= Len(bytes) THEN {}
  ELSE {a} \cup WasmStarts(bytes, WasmNext(bytes, a))

\* From instruction address a with the kinds of the open regions in `open`
\* (the function body is the outermost): the rest of the body has a header
\* whose blocktype is not 0x40, an `else` whose enclosing region is not an
\* `if`, an `end` with no region open, or leaves a region open.
RECURSIVE MalformedFrom(_, _, _)
MalformedFrom(bytes, a, open) ==
  IF a >= Len(bytes) THEN open # <<>>
  ELSE
    LET opcode == OpcodeAt(bytes, a)
        next == WasmNext(bytes, a)
    IN
    IF IsHeader(bytes, a)
    THEN \/ RD_BYTE(bytes, a + 1).val # EMPTY_BLOCKTYPE
         \/ MalformedFrom(bytes, next, Append(open, KindOfHeader(opcode)))
    ELSE IF opcode = WASM_OP_ELSE
    THEN \/ open = <<>>
         \/ back(open) # "If"
         \/ MalformedFrom(bytes, next, open)
    ELSE IF opcode = WASM_OP_END
    THEN \/ open = <<>>
         \/ MalformedFrom(bytes, next, pop_back(open))
    ELSE MalformedFrom(bytes, next, open)

Malformed(f) == MalformedFrom(f.code_bytes, 0, <<"Block">>)

\* The body has none of the narrow i64 loads and stores.
WithoutI64NarrowAccess(f) ==
  \A a \in WasmStarts(f.code_bytes, 0) :
    OpcodeAt(f.code_bytes, a) \notin I64NarrowAccess

\* The last step invoked the function `callee` with enough arguments: a
\* `call`, or run with main.
InvokedWith(callee) ==
  \/ /\ CallInRange
     /\ callee = last.imm
     /\ Len(last.operand_stack)
          >= Len(function_instances_[callee + 1].params)
  \/ /\ last.op = "run"
     /\ status \in {"running", "trapped"}
     /\ callee = main_

\* Invoking a function of the set F when its body is malformed traps with no
\* frame pushed and the operand stack as the caller left it; and no frame on
\* the call stack is that of a malformed function of F.
MalformedTraps(F) ==
  /\ \A callee \in F :
       (InvokedWith(callee) /\ Malformed(function_instances_[callee + 1])) =>
         /\ status = "trapped"
         /\ operand_stack_ = ArgStack
         /\ Len(call_stack_) =
              IF last.op = "run" THEN 0 ELSE Len(last.call_stack)
  /\ \A i \in 1..Len(call_stack_) :
       call_stack_[i].func \in F =>
         ~Malformed(function_instances_[call_stack_[i].func + 1])

FunctionIndices == 0..(Len(function_instances_) - 1)

\* C19: invoking a function whose body has an unmatched `end`, an `else`
\* whose enclosing construct is not an `if`, a region still open at
\* end-of-code or a header with a blocktype other than 0x40 (reachable or
\* not) traps at frame creation: no frame is pushed, no opcode of the
\* function runs and its parameters stay on the operand stack.
C19_MalformedBodyTraps == MalformedTraps(FunctionIndices)

\* The same for the functions whose bodies have no narrow i64 load or store.
C19_MalformedBodyTrapsWithoutI64NarrowAccess ==
  MalformedTraps({ callee \in FunctionIndices :
                     WithoutI64NarrowAccess(function_instances_[callee + 1]) })

\* A call of a function whose only flaw is a header with a bad blocktype
\* behind a `return` trapped.
C19_WitnessUnreachedHeader ==
  /\ CallInRange
  /\ status = "trapped"
  /\ function_instances_[last.imm + 1].code_bytes
       = <<65, 1, 65, 2, 15, 3, 127, 11, 11>>
  /\ operand_stack_ = last.operand_stack

\* A call of a function with a region left open trapped.
C19_WitnessUnclosed ==
  /\ CallInRange
  /\ status = "trapped"
  /\ function_instances_[last.imm + 1].code_bytes = <<2, 64, 11>>
  /\ operand_stack_ = last.operand_stack

\* main with a bad blocktype trapped at its frame creation.
C19_WitnessMain ==
  /\ last.op = "run"
  /\ status = "trapped"
  /\ function_instances_[main_ + 1].code_bytes = <<2, 127, 11, 11>>
  /\ operand_stack_ = ArgStack
  /\ call_stack_ = <<>>

\* A function with a bad blocktype header behind an i64.store32 was called,
\* returned its two results, and the run printed main's result.
C19_WitnessHiddenHeader ==
  /\ status = "done"
  /\ Len(function_instances_) = 2
  /\ Malformed(function_instances_[2])
  /\ ~WithoutI64NarrowAccess(function_instances_[2])
  /\ RunOutput(Len(runs)) = <<ResultLine("i32", I32(2))>>
\* ------------------------------------------------------- loop accumulator
\* 1 + 2 + ... + n
RECURSIVE SumTo(_)
SumTo(n) == IF n = 0 THEN 0 ELSE n + SumTo(n - 1)

\* The argument n of the current run.
LoopArg == DecimalValue(back(runs).args[1])

\* A run of the loop accumulator is over.
LoopRunOver == module_ = LoopModule /\ runs # <<>> /\ status # "running"

\* C20: every run of the loop accumulator main(n) with n in 1..MaxN ends
\* normally and prints 1 + 2 + ... + n.
C20_LoopAccumulatorPrintsSum ==
  LoopRunOver =>
    /\ status = "done"
    /\ RunOutput(Len(runs)) = <<ResultLine("i32", I32(SumTo(LoopArg)))>>

\* The same for the runs in which the back-edge is never taken (n = 1).
C20_LoopAccumulatorWithoutBackEdge ==
  (LoopRunOver /\ LoopArg = 1) =>
    /\ status = "done"
    /\ RunOutput(Len(runs)) = <<ResultLine("i32", I32(1))>>

\* A run that takes the back-edge prints no result.
C20_BackEdgeEndsTheRun ==
  (LoopRunOver /\ LoopArg >= 2) =>
    /\ status \in {"trapped", "crashed"}
    /\ \A i \in 1..Len(RunOutput(Len(runs))) :
         RunOutput(Len(runs))[i] = TrapLine

C20_WitnessWithoutBackEdge ==
  LoopRunOver /\ LoopArg = 1 /\ status = "done"

C20_WitnessBackEdge ==
  LoopRunOver /\ LoopArg = MaxN /\ status # "done"
\* --------------------------------------------------------------- br_table
\* The last step was run_op on a br_table opcode.
BrTableStepped == last.op = "default" /\ last.imm = WASM_OP_BR_TABLE

\* n LEB label indices from ptr on.
RECURSIVE BrTableTargets(_, _, _)
BrTableTargets(bytes, ptr, n) ==
  IF n = 0 THEN [targets |-> <<>>, ptr |-> ptr]
  ELSE LET t == RD_U32(bytes, ptr)
           rest == BrTableTargets(bytes, t.ptr, n - 1)
       IN [targets |-> <<t.val>> \o rest.targets, ptr |-> rest.ptr]

\* The immediates of the br_table of the last step: N targets, the default,
\* and the cursor after them.
LastBrTable ==
  LET n == RD_U32(LastCode, LastFr.pc + 1)
      ts == BrTableTargets(LastCode, n.ptr, n.val)
      d == RD_U32(LastCode, ts.ptr)
  IN [targets |-> ts.targets, default |-> d.val, ptr |-> d.ptr]

\* The label index br_table selects for the index on top of the stack.
BrTableChoice ==
  LET index == back(last.operand_stack).v IN
  IF 0 <= index /\ index < Len(LastBrTable.targets)
  THEN LastBrTable.targets[index + 1]
  ELSE LastBrTable.default

\* The br_table of the last step found an i32 index the frame itself had
\* pushed, and the label it selects exists.
BrTableCanBranch ==
  /\ BrTableStepped
  /\ Len(last.operand_stack) > LastFr.stack_height_on_entry
  /\ back(last.operand_stack).kind = "i32"
  /\ BrTableChoice < Len(LastFr.labels)

\* C21: br_table pops the i32 index and leaves the operand stack, the label
\* stack and the pc as `br` to targets[index] (0 <= index < N) or to the
\* default (otherwise) would from the state after the pop.
C21_BrTableBranches ==
  BrTableCanBranch =>
    LET r == br(BrTableChoice, pop_back(last.operand_stack),
                SetPc(last.call_stack, LastBrTable.ptr))
    IN /\ status = "running"
       /\ operand_stack_ = r.stack
       /\ call_stack_ = r.cs

\* What run_op does with br_table: it throws before reading an immediate or
\* popping the index.
C21_BrTableTraps ==
  BrTableStepped =>
    /\ status = "trapped"
    /\ operand_stack_ = last.operand_stack
    /\ call_stack_ = SetPc(last.call_stack, LastFr.pc + 1)
    /\ back(RunOutput(Len(runs))) = TrapLine

\* A br_table with index 5 and one target, so the default is selected.
C21_WitnessDefault ==
  /\ BrTableCanBranch
  /\ back(last.operand_stack) = I32(5)
  /\ BrTableChoice = 1
  /\ status = "trapped"

\* A br_table with index 0 and one target.
C21_WitnessInRange ==
  /\ BrTableCanBranch
  /\ back(last.operand_stack) = I32(0)
  /\ BrTableChoice = 0
  /\ status = "trapped"
\* ------------------------------------------------------------------ select
\* The last step was a select that found a condition, val2 and val1 the
\* frame itself had pushed, the condition an i32.
SelectStepped ==
  /\ last.op = "select"
  /\ OwnValues(3)
  /\ back(last.operand_stack).kind = "i32"

SelectVal2 == last.operand_stack[Len(last.operand_stack) - 1]
SelectVal1 == last.operand_stack[Len(last.operand_stack) - 2]
SelectRest == SubSeq(last.operand_stack, 1, Len(last.operand_stack) - 3)

\* C22: select with an i32 condition and operands of different kinds traps
\* and pushes neither operand.
C22_SelectChecksKinds ==
  (SelectStepped /\ SelectVal1.kind # SelectVal2.kind) =>
    /\ status = "trapped"
    /\ Len(operand_stack_) <= Len(last.operand_stack)
    /\ operand_stack_ # Append(SelectRest, SelectVal1)
    /\ operand_stack_ # Append(SelectRest, SelectVal2)

\* What select does with an i32 condition, whatever the operands' kinds: it
\* pushes val1 for a non-zero condition and val2 for zero.
C22_SelectPushesAnOperand ==
  SelectStepped =>
    /\ status = "running"
    /\ operand_stack_ =
         Append(SelectRest,
                IF back(last.operand_stack).v # 0 THEN SelectVal1
                ELSE SelectVal2)

\* select of an i32 and an i64 on a non-zero condition pushed the i32.
C22_WitnessVal1 ==
  /\ SelectStepped
  /\ SelectVal1 = I32(1)
  /\ SelectVal2 = I64(2)
  /\ back(operand_stack_) = I32(1)

\* select of an i32 and an i64 on a zero condition pushed the i64.
C22_WitnessVal2 ==
  /\ SelectStepped
  /\ SelectVal1 = I32(1)
  /\ SelectVal2 = I64(2)
  /\ back(operand_stack_) = I64(2)

\* select with a condition that is not an i32 trapped.
C22_WitnessCondition ==
  /\ last.op = "select"
  /\ back(last.operand_stack).kind = "i64"
  /\ status = "trapped"
\* ------------------------------------------------------- nop, block / end
\* The bytes at p are `block 0x40` immediately followed by `end`.
EmptyBlockAt(bytes, p) ==
  /\ p + 3 <= Len(bytes)
  /\ bytes[p + 1] = WASM_OP_BLOCK
  /\ bytes[p + 2] = EMPTY_BLOCKTYPE
  /\ bytes[p + 3] = WASM_OP_END

\* The last step was the `block` of an empty block: the frame's cursor is on
\* the `end` now.
EmptyBlockEntered ==
  /\ last.op = "block"
  /\ EmptyBlockAt(LastCode, LastFr.pc)
  /\ status = "running"

\* Everything but the pc of the top frame is as it was before the last step.
OnlyPcMoved(pc) ==
  /\ status = "running"
  /\ operand_stack_ = last.operand_stack
  /\ call_stack_ = SetPc(last.call_stack, pc)
  /\ linear_memory_ = last.linear_memory
  /\ global_values_ = last.global_values

\* The step from the state after the `block` of an empty block (whose own
\* previous state `last` describes) leads to a state that differs from the
\* one before the `block` in the pc only.
EmptyBlockPairIsNoOp ==
  EmptyBlockEntered =>
    /\ last'.op = "end"
    /\ status' = "running"
    /\ operand_stack_' = last.operand_stack
    /\ call_stack_' = SetPc(last.call_stack, LastFr.pc + 3)
    /\ linear_memory_' = last.linear_memory
    /\ global_values_' = last.global_values
    /\ output' = output

\* C23: `nop` changes nothing but the pc; and `block 0x40` immediately
\* followed by its `end` is entered without a trap and, once the `end` has
\* run, has changed nothing but the pc: operand stack, label stack, locals,
\* globals, linear memory and call stack are as before the `block`.
C23_NopAndEmptyBlockChangeOnlyPc ==
  /\ [](last.op = "nop" => OnlyPcMoved(LastFr.pc + 1))
  /\ []((last.op = "block" /\ EmptyBlockAt(LastCode, LastFr.pc))
          => status = "running")
  /\ [][EmptyBlockPairIsNoOp]_vars

\* The `end` of an empty block has just run, with two values on the operand
\* stack and inside an enclosing construct.
C23_Witness ==
  /\ last.op = "end"
  /\ status = "running"
  /\ LastFr.pc >= 2
  /\ EmptyBlockAt(LastCode, LastFr.pc - 2)
  /\ back(LastFr.labels).kind = "Block"
  /\ back(LastFr.labels).stack_height = Len(last.operand_stack)
  /\ Len(fr.labels) >= 2
  /\ operand_stack_ # <<>>

\* A nop has just run.
C23_WitnessNop ==
  /\ last.op = "nop"
  /\ OnlyPcMoved(LastFr.pc + 1)
  /\ operand_stack_ # <<>>
\* ------------------------------------------------- label stack and nesting
\* The body has no br, br_if or br_table: every construct that is entered is
\* left through its `end` (or by a return of the whole function).
BranchFree(bytes) ==
  \A a \in InstrStarts(bytes, 0) :
    OpcodeAt(bytes, a) \notin {WASM_OP_BR, WASM_OP_BR_IF, WASM_OP_BR_TABLE}

\* The kinds of the labels a frame at instruction address pc has when every
\* construct pushed one label at its header and removed exactly that label
\* at its `end`: the function body's label, then one label per construct
\* that is open at pc, outermost first.
NestingKinds(bytes, pc) ==
  <<"Implicit">> \o
  [i \in 1..Len(Enclosing(bytes, pc)) |->
     KindOfHeader(OpcodeAt(bytes, Enclosing(bytes, pc)[i]))]

LabelKinds(frame) == [i \in 1..Len(frame.labels) |-> frame.labels[i].kind]

\* The top frame is at a dispatcher iteration boundary inside its code.
AtBoundary ==
  /\ status = "running"
  /\ call_stack_ # <<>>
  /\ fr.pc # NULL
  /\ fr.pc < Len(code)

\* The top frame's label stack is the one its static nesting gives.
LabelsFollowNesting == LabelKinds(fr) = NestingKinds(code, fr.pc)

\* C24: in a function without branches (and whose first byte is not a
\* header, the case of C3), every construct entered through its header and
\* left through its `end` leaves the label stack as it was before the
\* header; so at every instruction boundary the label stack is the function
\* body's label followed by one label for each construct open there.
C24_ConstructsRestoreLabelStack ==
  (AtBoundary /\ BranchFree(code) /\ ~IsHeader(code, 0)) =>
    LabelsFollowNesting

\* The same for the functions that also have no `else`: blocks, loops and
\* ifs without else, on either condition.
C24_WithoutElseLabelsFollowNesting ==
  (/\ AtBoundary
   /\ BranchFree(code)
   /\ ~IsHeader(code, 0)
   /\ \A a \in InstrStarts(code, 0) : OpcodeAt(code, a) # WASM_OP_ELSE) =>
    LabelsFollowNesting

\* An `if` with an else and a zero condition enters the else-branch with its
\* label pushed, and every `end` that closes a construct of the frame
\* removes exactly the top label.
C24_ElseBranchAndEndPopOneLabel ==
  /\ (/\ Stepped("if")
      /\ OwnValues(1)
      /\ back(last.operand_stack) = I32(0)
      /\ LastFr.pc > 0
      /\ MatchOf(LastCode, LastFr.pc).else_at # NULL) =>
       /\ fr.pc = MatchOf(LastCode, LastFr.pc).else_at + 1
       /\ pop_back(fr.labels) = LastFr.labels
       /\ back(fr.labels).kind = "If"
  /\ (Stepped("end") /\ Len(call_stack_) = Len(last.call_stack)) =>
       fr.labels = pop_back(LastFr.labels)

\* The `else` that ends a then-branch has popped the if label and left the
\* cursor on the if's `end`, which will pop one more.
C24_WitnessThenBranch ==
  /\ ElseStepped
  /\ BranchFree(code)
  /\ ~IsHeader(code, 0)
  /\ fr.pc = MatchOf(code, back(Enclosing(code, fr.pc))).end
  /\ fr.labels = pop_back(LastFr.labels)

\* An else-branch has been left through the `end` of its if.
C24_WitnessElseBranch ==
  /\ IfClosed
  /\ BranchFree(code)
  /\ LabelsFollowNesting
  /\ MatchOf(LastCode, back(Enclosing(LastCode, LastFr.pc))).else_at # NULL

\* A loop has been left through its `end`.
C24_WitnessLoop ==
  /\ Stepped("end")
  /\ Len(call_stack_) = Len(last.call_stack)
  /\ back(LastFr.labels).kind = "Loop"
  /\ ~IsHeader(code, 0)
  /\ BranchFree(code)
  /\ AtBoundary
  /\ LabelsFollowNesting

\* ---------------------------------------------------------------- C25
\* The first byte the access of the previous step touches: the address plus
\* the offset, as the uint32_t effective_addr of the handler (the sum wraps).
TouchedFrom == u32_add(u32(AccessAddr), last.imm)

\* The four bytes from TouchedFrom on have indices in [0, size).
TouchedInMemory ==
  /\ TouchedFrom.hi < 32768
  /\ TouchedFrom.hi * 65536 + TouchedFrom.lo <= last.linear_memory.size - 4

\* The access of the previous step was made: it raised no trap.
AccessNotTrapped == AnyMemoryAccess /\ status # "trapped"

\* effective_addr + 4 leaves the 32 bits: effective_addr >= 0xFFFFFFFC.
SumPlusFourWraps == TouchedFrom.hi = 65535 /\ TouchedFrom.lo >= 65532

\* addr + offset leaves the 32 bits: the sum is below the offset.
SumWraps == u32_gt(last.imm, TouchedFrom)

\* C25: every i32.load or i32.store that does not trap touches only byte
\* indices in [0, linear-memory size), for every i32 address and every 32-bit
\* offset immediate, including those for which addr + offset or
\* effective_addr + 4 wraps in 32-bit arithmetic.
C25_AccessesStayInMemory ==
  AccessNotTrapped => (AccessAddr >= 0 /\ TouchedInMemory)

\* What the code guarantees: an access that does not trap stays in memory
\* unless effective_addr + 4 wraps, and then it never does.
C25_OnlyWrappedBoundEscapes ==
  AccessNotTrapped =>
    /\ AccessAddr >= 0
    /\ TouchedInMemory <=> ~SumPlusFourWraps

\* Where addr + offset wraps and effective_addr + 4 does not, the wrapped sum
\* is the address that is checked and accessed.
C25_WrappedSumIsChecked ==
  (AnyMemoryAccess /\ AccessAddr >= 0 /\ SumWraps /\ ~SumPlusFourWraps
   /\ last.op = "i32.load")
    => IF TouchedInMemory
       THEN /\ status = "running"
            /\ back(operand_stack_) =
                 I32(i32_load_bytes(last.linear_memory,
                                    TouchedFrom.hi * 65536 + TouchedFrom.lo))
       ELSE status = "trapped"

\* i32.const 0; i32.load offset=0xFFFFFFFC is executed without a trap.
C25_WitnessEscape ==
  /\ AccessNotTrapped
  /\ last.op = "i32.load"
  /\ AccessAddr = 0
  /\ last.imm = [hi |-> 65535, lo |-> 65532]
  /\ status = "running"

\* The same escape through i32.store, and the process dying of it.
C25_WitnessStoreEscape ==
  /\ AccessNotTrapped
  /\ last.op = "i32.store"
  /\ SumPlusFourWraps
  /\ status = "crashed"

\* i32.const 1; i32.load offset=0xFFFFFFFF loads from address 0.
C25_WitnessWrappedSum ==
  /\ AccessNotTrapped
  /\ last.op = "i32.load"
  /\ SumWraps
  /\ TouchedFrom = u32(0)
  /\ status = "running"

\* ---------------------------------------------------------------- C26
\* The dispatcher is about to read an opcode (invoke's loop goes round).
IterationBoundary == status = "running" /\ call_stack_ # <<>>

FrameCode(frame) == module_.funcs[frame.func + 1].code_bytes

\* The address lies in [start, end] of the frame's function code.
InCode(frame, pc) == pc # NULL /\ pc >= 0 /\ pc <= Len(FrameCode(frame))

FramesOnStack == {call_stack_[i] : i \in 1..Len(call_stack_)}

PcsInCode == \A frame \in FramesOnStack : InCode(frame, frame.pc)

LabelTargetsInCode ==
  \A frame \in FramesOnStack :
    \A i \in 1..Len(frame.labels) : InCode(frame, frame.labels[i].pc_target)

\* C26: at every dispatcher iteration boundary the pc of every frame lies
\* within [start, end] of that frame's function code, and the pc_target of
\* every label on every label stack is an address within that range, never
\* null; no branch moves the pc outside the code.
C26_PcsAndTargetsInCode ==
  IterationBoundary => (PcsInCode /\ LabelTargetsInCode)

\* What the code guarantees: the labels of block, loop and if carry a target
\* inside the code, the label of the function body carries the null target,
\* and a pc is inside the code or null.
C26_OnlyBodyLabelTargetIsNull ==
  IterationBoundary =>
    \A frame \in FramesOnStack :
      /\ frame.pc = NULL \/ InCode(frame, frame.pc)
      /\ \A i \in 1..Len(frame.labels) :
           IF frame.labels[i].kind = "Implicit"
           THEN frame.labels[i].pc_target = NULL
           ELSE InCode(frame, frame.labels[i].pc_target)

\* A pc becomes null only by a branch, and only by one that took the target
\* of a function-body label.
C26_NullPcComesFromBodyLabel ==
  (IterationBoundary /\ fr.pc = NULL /\ last.op # "null_cursor")
    => /\ last.op \in {"br", "br_if"}
       /\ LastFr.pc # NULL
       /\ \E i \in 1..Len(LastFr.labels) :
            LastFr.labels[i].kind = "Implicit"

\* A frame has just been pushed: its only label has the null target.
C26_WitnessBodyLabel ==
  /\ IterationBoundary
  /\ last.op = "call"
  /\ Len(call_stack_) = 2
  /\ fr.pc = 0
  /\ fr.labels[1].pc_target = NULL

\* A br has moved the pc of the top frame to null.
C26_WitnessNullPc ==
  /\ IterationBoundary
  /\ last.op = "br"
  /\ fr.pc = NULL

\* Inside a block in a callee: the block's target and both pcs are in the code.
C26_WitnessBlockLabel ==
  /\ IterationBoundary
  /\ Len(call_stack_) = 2
  /\ Len(fr.labels) = 2
  /\ back(fr.labels).kind = "Block"
  /\ InCode(fr, back(fr.labels).pc_target)
  /\ PcsInCode

\* ---------------------------------------------------------------- C27
\* The operand stack holds at least what it held when the top frame was
\* pushed (the caller's values below the arguments).
DepthAtLeastEntryHeight ==
  Len(operand_stack_) >= fr.stack_height_on_entry

\* The previous step was a drop in a frame whose own part of the operand
\* stack was empty: the value on top belonged to the caller.
DropAtEntryHeight ==
  /\ last.op = "drop"
  /\ Len(last.operand_stack) <= LastFr.stack_height_on_entry

\* C27: while a frame is the top of the call stack the operand-stack depth
\* never drops below that frame's stack_height_on_entry, and an attempt to
\* pop below that height traps as an operand-stack underflow.
C27_CalleeKeepsCallersOperands ==
  /\ IterationBoundary => DepthAtLeastEntryHeight
  /\ DropAtEntryHeight => status = "trapped"

\* What the code guarantees: drop traps on the empty operand stack and on
\* nothing else, whichever frame the value on top belongs to.
C27_DropTrapsOnlyOnEmptyStack ==
  last.op = "drop" =>
    IF last.operand_stack = <<>>
    THEN status = "trapped"
    ELSE /\ status = "running"
         /\ operand_stack_ = pop_back(last.operand_stack)

\* A frame starts at its entry height: add_frame leaves the operand stack
\* exactly stack_height_on_entry deep.
C27_FrameStartsAtEntryHeight ==
  (IterationBoundary /\ last.op \in {"run", "call", "call_indirect"}
   /\ Len(call_stack_) > Len(last.call_stack))
    => Len(operand_stack_) = fr.stack_height_on_entry

\* The callee drops the 5 that main pushed below the argument.
C27_WitnessDropsCallersValue ==
  /\ DropAtEntryHeight
  /\ Len(last.call_stack) = 2
  /\ last.operand_stack = <<I32(5)>>
  /\ IterationBoundary
  /\ operand_stack_ = <<>>
  /\ fr.stack_height_on_entry = 1

\* A drop on the empty operand stack traps.
C27_WitnessUnderflow ==
  /\ last.op = "drop"
  /\ last.operand_stack = <<>>
  /\ status = "trapped"

\* A drop of the callee's own value leaves the caller's below it.
C27_WitnessOwnValue ==
  /\ last.op = "drop"
  /\ Len(last.call_stack) = 2
  /\ Len(last.operand_stack) > LastFr.stack_height_on_entry
  /\ IterationBoundary
  /\ DepthAtLeastEntryHeight

====
